---- MODULE Spec2Model ----
\* Credential update sessions of the identity server
\* (server/lib/src/idm/credupdatesession.rs): the session store, the intent
\* token ledger kept on the account entry, the per-session edit operations
\* and commit / cancel.  One target account, one server.

EXTENDS Naturals, Integers, Sequences, FiniteSets, TLC

\* ------------------------------------------------------------------ bounds

\* intent tokens issued and sessions created, together, over a run of the
\* lifecycle specification
MaxOpens == 3
\* sessions created over a run of the edit specification
MaxDirect == 1
\* successful edit operations over a run of the lifecycle specification
MaxLedgerEdits == 1
\* successful edit operations over a run of the edit specification
MaxEdits == 2
\* number of clock values a caller may supply (a prefix of TimePoints)
MaxTimeIdx == 2
\* the same for the edit specification
MaxEditTimeIdx == 1
\* request threads that may each have one call in flight on a session handle
MaxThreads == 2
\* successful edit operations over a run of the MFA specification
MaxMfaEdits == 3

\* ------------------------------------------------------- program constants

MAXIMUM_CRED_UPDATE_TTL == 900
DEFAULT_INTENT_TTL == 3600
MAXIMUM_INTENT_TTL == 86400
MINIMUM_INTENT_TTL == 300

\* ------------------------------------------------------------ input domains

\* Clock values (seconds) supplied as `ct`: the intent minimum TTL (300) and
\* the session TTL (900) after the start, and beyond.
TimePoints == <<0, 300, 900, 1200, 1800>>
Times == {TimePoints[i] : i \in 1..MaxTimeIdx}
\* The same for the edit specification, where only sessions expire.
EditTimePoints == <<0, 900, 1800, 2700>>
EditTimes == {EditTimePoints[i] : i \in 1..MaxEditTimeIdx}
\* Clock values around the expiry of a session created at 0: before it, at
\* it and one second past it.
StoreTimes == {0, MAXIMUM_CRED_UPDATE_TTL, MAXIMUM_CRED_UPDATE_TTL + 1}
\* The one clock value of the runs in which time plays no part.
OpenTimes == {0}
\* The instant a session is created at and the instant it expires at.
ExpiryTimes == {0, MAXIMUM_CRED_UPDATE_TTL}

\* Requested intent TTL: below the minimum, the minimum (NoTtl: absent).
NoTtl == -1
TtlRequests == {0, MINIMUM_INTENT_TTL}
\* Requested intent TTL where the clamp is examined: absent, below and at
\* the minimum, inside the range, at and above the maximum.
IntentTtls == {NoTtl, MINIMUM_INTENT_TTL - 1, MINIMUM_INTENT_TTL, 2 * MINIMUM_INTENT_TTL,
               MAXIMUM_INTENT_TTL, MAXIMUM_INTENT_TTL + 1}

\* Cleartext passwords offered to set-password; "short" fails the quality check.
Passwords == {"short", "pwB"}
\* The one accepted password a session of the lifecycle specification sets.
LedgerPasswords == {"pwA"}
Labels == {"l1"}
Secrets == {1}
PkIds == {1}

None == [type |-> "None"]
Some(v) == [type |-> "Some", v |-> v]

Min(a, b) == IF a < b THEN a ELSE b
Max(a, b) == IF a > b THEN a ELSE b

\* A clamp that applies the lower limit only: C11 does not hold of it.
ClampFloor(v, lo, hi) == Max(lo, v)
\* Duration::clamp
Clamp(v, lo, hi) == Max(lo, Min(v, hi))

\* ------------------------------------------------- identifiers and tokens

\* The server id every identifier of this server carries.
sid == "s1"

\* uuid_from_duration: the identifier is derived from (instant, server id)
\* and orders as the instant does.
uuid_from_duration(d, s) == <<d, s>>

\* Ordering of identifiers, as the ordered map sees them.
UuidLt(a, b) == a[1] < b[1]

\* CredentialUpdateSessionTokenInner
SessionToken(sessionid, max_ttl) == [sessionid |-> sessionid, max_ttl |-> max_ttl]

\* A token a client presents (CredentialUpdateSessionToken) is either one this
\* server sealed, which stands here for the content sealed into it, or a
\* forgery, described by the step of opening that fails on it: decryption
\* under the server's key, or decoding of the decrypted bytes.
Forged(fault) == [fault |-> fault]
ForgedTokens == {Forged("decrypt"), Forged("decode")}

\* token_enc_key.decrypt(..).map_err(..).and_then(serde_json::from_slice ..):
\* the content of the token, or the error of the step that failed.
OpenToken(cust) ==
    IF "fault" \notin DOMAIN cust THEN [err |-> "Ok", token |-> cust]
    ELSE IF cust.fault = "decrypt" THEN [err |-> "SessionExpired"]
    ELSE [err |-> "SerdeJsonError"]

\* ------------------------------------------------------------- credentials

\* Totp: a secret and the algorithm it is used with.
Totp(secret, algo) == [secret |-> secret, algo |-> algo]

\* Totp::generate_secure: a fresh secret under the default algorithm.
generate_secure(secret) == Totp(secret, "Sha256")

\* Totp::downgrade_to_legacy
downgrade_to_legacy(t) == Totp(t.secret, "Sha1")

\* A code typed by the user: what an authenticator holding `secret` computes
\* under `algo`, or a number valid for nothing.
WrongCode == [secret |-> 0, algo |-> "none"]
Codes == {Totp(s, a) : s \in Secrets, a \in {"Sha256", "Sha1"}} \cup {WrongCode}

\* Totp::verify
verify(t, chal) == chal = t

EmptyMap == [x \in {} |-> None]

\* Credential::new_password_only
new_password_only(pw) ==
    [type |-> "Password", pw |-> pw, totp |-> EmptyMap, backup_code |-> FALSE]

\* Credential::set_password: replaces the password, keeps TOTP and backup codes
set_password(cred, pw) == [cred EXCEPT !.pw = pw]

\* Credential::append_totp
append_totp(cred, label, t) ==
    [type |-> "PasswordMfa", pw |-> cred.pw,
     totp |-> [l \in DOMAIN cred.totp \cup {label} |->
                  IF l = label THEN t ELSE cred.totp[l]],
     backup_code |-> cred.backup_code]

\* Credential::remove_totp: without any TOTP left the credential is
\* password-only again, which carries no backup codes.
remove_totp(cred, label) ==
    LET rest == DOMAIN cred.totp \ {label} IN
    IF rest = {} THEN new_password_only(cred.pw)
    ELSE [cred EXCEPT !.totp = [l \in rest |-> cred.totp[l]]]

\* Credential::update_backup_code: only on a credential that has MFA
update_backup_code(cred) ==
    IF cred.type = "PasswordMfa" THEN Some([cred EXCEPT !.backup_code = TRUE])
    ELSE None

\* Credential::remove_backup_code: only when codes are present
remove_backup_code(cred) ==
    IF cred.type = "PasswordMfa" /\ cred.backup_code
    THEN Some([cred EXCEPT !.backup_code = FALSE])
    ELSE None

\* check_password_quality
check_password_quality(pw) == IF pw = "short" THEN "TooShort" ELSE "Ok"

\* ------------------------------------------------------------------- state

VARIABLES
    acct_primary,           \* the account's primary credential (Option)
    acct_passkeys,          \* the account's passkeys: uuid -> label
    acct_intents,           \* the account's intent tokens: intent id -> IntentTokenState
    acct_sync_parent,       \* the account's sync_parent_uuid is Some
    other_intents,          \* the intent ids on the entries of other accounts
    cred_update_sessions,   \* the session store: session id -> session record
    issued,                 \* session tokens handed to clients
    nintents,               \* intent tokens issued so far
    last,                   \* the last call: operation, result, returned status
    \* history
    created,                \* sessions created so far
    opens,                  \* intent tokens and sessions still allowed
    edits,                  \* successful edits still allowed
    exch_hist,              \* per intent: session ids of its successful exchanges, in order
    finished,               \* the sessions committed or cancelled successfully
    epoch,                  \* successful commits so far
    opened,                 \* per stored session: perms and epoch at open, edited since
    granted,                \* per intent token: expiry and perms it was issued with
    about,                  \* what the last call acted on: the session it took from
                            \* the store, the intent it was asked to exchange
    calls                   \* per request thread: the call that holds a session handle

vars == <<acct_primary, acct_passkeys, acct_intents, acct_sync_parent, other_intents,
          cred_update_sessions, issued, nintents, last,
          created, opens, edits, exch_hist, finished, epoch, opened, granted, about,
          calls>>

acctVars == <<acct_primary, acct_passkeys, acct_intents, acct_sync_parent, other_intents>>
histVars == <<created, opens, edits, exch_hist, finished, epoch, opened, granted>>

NoStatus == [type |-> "NoStatus"]
Result(op, res, status) == [op |-> op, res |-> res, status |-> status]

IntentIds == 1..MaxOpens

\* The threads serving requests; each runs one call at a time.
Threads == 1..MaxThreads

\* A person without intent tokens, whose primary credential is one of
\* `primaries` and whose passkeys are one of `passkeys`; nothing issued,
\* nothing stored.
InitWith(sync_parents, primaries, passkeys, max_opens, max_edits) ==
    /\ acct_primary \in primaries
    /\ acct_passkeys \in passkeys
    /\ acct_intents = EmptyMap
    /\ acct_sync_parent \in sync_parents
    /\ other_intents = {}
    /\ cred_update_sessions = EmptyMap
    /\ issued = {}
    /\ nintents = 0
    /\ last = Result("none", "Ok", NoStatus)
    /\ created = 0
    /\ opens = max_opens
    /\ edits = max_edits
    /\ exch_hist = [i \in IntentIds |-> <<>>]
    /\ finished = {}
    /\ epoch = 0
    /\ opened = EmptyMap
    /\ granted = EmptyMap
    /\ about = None
    /\ calls = [t \in Threads |-> None]

\* A new person, as the tests create it: no credential, not synchronised
\* from an external source.
Init == InitWith({FALSE}, {None}, {EmptyMap}, MaxOpens, MaxLedgerEdits)
\* A person with or without a password, synchronised or not.
InitEdit ==
    InitWith(BOOLEAN, {None, Some(new_password_only("pwA"))}, {EmptyMap}, MaxDirect, MaxEdits)

\* ------------------------------------------------------ the account entry

Account == [primary |-> acct_primary, passkeys |-> acct_passkeys,
            intents |-> acct_intents, sync_parent |-> acct_sync_parent]

\* IntentTokenState
Valid(max_ttl, perms) == [state |-> "Valid", max_ttl |-> max_ttl, perms |-> perms]
InProgress(max_ttl, perms, session_id, session_ttl) ==
    [state |-> "InProgress", max_ttl |-> max_ttl, perms |-> perms,
     session_id |-> session_id, session_ttl |-> session_ttl]
Consumed(max_ttl) == [state |-> "Consumed", max_ttl |-> max_ttl]

\* Modify
Present(attr, key, v) == [m |-> "Present", attr |-> attr, key |-> key, v |-> v]
Removed(attr, key) == [m |-> "Removed", attr |-> attr, key |-> key]
Purged(attr) == [m |-> "Purged", attr |-> attr]

MapPut(f, k, v) == [x \in DOMAIN f \cup {k} |-> IF x = k THEN v ELSE f[x]]
MapDel(f, k) == [x \in DOMAIN f \ {k} |-> f[x]]

\* One modification applied to the entry.
ApplyMod(acc, mod) ==
    IF mod.attr = "CredentialUpdateIntentToken" THEN
        IF mod.m = "Present" THEN [acc EXCEPT !.intents = MapPut(@, mod.key, mod.v)]
        ELSE IF mod.m = "Removed" THEN [acc EXCEPT !.intents = MapDel(@, mod.key)]
        ELSE [acc EXCEPT !.intents = EmptyMap]
    ELSE IF mod.attr = "PrimaryCredential" THEN
        IF mod.m = "Present" THEN [acc EXCEPT !.primary = Some(mod.v)]
        ELSE [acc EXCEPT !.primary = None]
    ELSE \* PassKeys
        IF mod.m = "Present" THEN [acc EXCEPT !.passkeys = MapPut(@, mod.key, mod.v)]
        ELSE IF mod.m = "Removed" THEN [acc EXCEPT !.passkeys = MapDel(@, mod.key)]
        ELSE [acc EXCEPT !.passkeys = EmptyMap]

\* internal_modify: the whole list, in order, as one change of the entry.
RECURSIVE ApplyModList(_, _)
ApplyModList(acc, ml) ==
    IF ml = <<>> THEN acc ELSE ApplyModList(ApplyMod(acc, Head(ml)), Tail(ml))

\* The entry after internal_modify with this list.
internal_modify(ml) ==
    LET acc == ApplyModList(Account, ml) IN
    /\ acct_primary' = acc.primary
    /\ acct_passkeys' = acc.passkeys
    /\ acct_intents' = acc.intents
    /\ UNCHANGED <<acct_sync_parent, other_intents>>

\* A set of keys as a sequence (any order: the uses do not depend on it).
RECURSIVE SetToSeq(_)
SetToSeq(S) ==
    IF S = {} THEN <<>>
    ELSE LET x == CHOOSE y \in S : TRUE IN <<x>> \o SetToSeq(S \ {x})

\* ------------------------------------------------ permissions of the caller

\* What the access controls answer for an identity on the target: the
\* attributes it may search, add and remove, and whether it may see the
\* credential portal of the sync parent.
Attrs == {"PrimaryCredential", "PassKeys"}
Ident(scope, search, modify_pres, modify_rem, portal) ==
    [scope |-> scope, search |-> search, modify_pres |-> modify_pres,
     modify_rem |-> modify_rem, portal |-> portal]
Identities ==
    { Ident("ReadWrite", Attrs, Attrs, Attrs, TRUE),
      Ident("ReadOnly", Attrs, Attrs, Attrs, TRUE),
      Ident("ReadWrite", Attrs, {"PrimaryCredential"}, Attrs, FALSE),
      Ident("ReadWrite", Attrs, Attrs, {"PassKeys"}, FALSE),
      Ident("ReadWrite", Attrs, {}, {}, TRUE),
      Ident("ReadWrite", {}, Attrs, Attrs, FALSE) }

\* The identities acting on an account that has no sync parent.
LocalIdentities ==
    { Ident("ReadWrite", Attrs, Attrs, Attrs, TRUE),
      Ident("ReadOnly", Attrs, Attrs, Attrs, TRUE),
      Ident("ReadWrite", Attrs, Attrs, {"PassKeys"}, FALSE),
      Ident("ReadWrite", Attrs, {}, {}, TRUE) }

\* The identities that issue intent tokens: an administrator, read-write or
\* read-only.
IntentIdentities ==
    { Ident("ReadWrite", Attrs, Attrs, Attrs, TRUE),
      Ident("ReadOnly", Attrs, Attrs, Attrs, TRUE) }

\* CredUpdateSessionPerms
Perms(ext, pk, pri) ==
    [ext_cred_portal_can_view |-> ext, passkeys_can_edit |-> pk, primary_can_edit |-> pri]

\* A validation that does not look at the access scope: C18 does not hold of
\* it.
validate_init_credential_update_any_scope(ident) ==
    LET primary_can_edit ==
            /\ "PrimaryCredential" \in ident.search
            /\ "PrimaryCredential" \in ident.modify_pres
            /\ "PrimaryCredential" \in ident.modify_rem
        passkeys_can_edit ==
            /\ "PassKeys" \in ident.search
            /\ "PassKeys" \in ident.modify_pres
            /\ "PassKeys" \in ident.modify_rem
        ext_cred_portal_can_view ==
            IF acct_sync_parent THEN ident.portal ELSE FALSE
    IN IF ~(primary_can_edit \/ passkeys_can_edit \/ ext_cred_portal_can_view)
       THEN [err |-> "NotAuthorised"]
       ELSE [err |-> "Ok",
             perms |-> Perms(ext_cred_portal_can_view, passkeys_can_edit, primary_can_edit)]

\* validate_init_credential_update: an error, or the permissions of the session
validate_init_credential_update(ident) ==
    IF ident.scope # "ReadWrite" THEN [err |-> "AccessDenied"]
    ELSE
      LET primary_can_edit ==
              /\ "PrimaryCredential" \in ident.search
              /\ "PrimaryCredential" \in ident.modify_pres
              /\ "PrimaryCredential" \in ident.modify_rem
          passkeys_can_edit ==
              /\ "PassKeys" \in ident.search
              /\ "PassKeys" \in ident.modify_pres
              /\ "PassKeys" \in ident.modify_rem
          ext_cred_portal_can_view ==
              IF acct_sync_parent THEN ident.portal ELSE FALSE
      IN IF ~(primary_can_edit \/ passkeys_can_edit \/ ext_cred_portal_can_view)
         THEN [err |-> "NotAuthorised"]
         ELSE [err |-> "Ok",
               perms |-> Perms(ext_cred_portal_can_view, passkeys_can_edit, primary_can_edit)]

\* ------------------------------------------------------ the session record

\* A can_commit that refuses while an MFA registration is in progress: C33
\* does not hold of it.
can_commit_no_registration(session) == session.mfaregstate.type = "None"

\* CredentialUpdateSession::can_commit
can_commit(session) == TRUE

\* A status that reports the primary's permission for the passkeys as well:
\* C5 does not hold of it.
StatusOnePermission(session) ==
    [type |-> "Status",
     ext_cred_portal |-> session.ext_cred_portal,
     can_commit |-> can_commit(session),
     primary |-> session.primary,
     primary_can_edit |-> session.primary_can_edit,
     passkeys |-> session.passkeys,
     passkeys_can_edit |-> session.primary_can_edit,
     mfaregstate |->
        IF session.mfaregstate.type = "None" THEN "None"
        ELSE IF session.mfaregstate.type = "TotpInit" THEN "TotpCheck"
        ELSE session.mfaregstate.type]

\* From<&CredentialUpdateSession> for CredentialUpdateSessionStatus
Status(session) ==
    [type |-> "Status",
     ext_cred_portal |-> session.ext_cred_portal,
     can_commit |-> can_commit(session),
     primary |-> session.primary,
     primary_can_edit |-> session.primary_can_edit,
     passkeys |-> session.passkeys,
     passkeys_can_edit |-> session.passkeys_can_edit,
     mfaregstate |->
        IF session.mfaregstate.type = "None" THEN "None"
        ELSE IF session.mfaregstate.type = "TotpInit" THEN "TotpCheck"
        ELSE session.mfaregstate.type]

\* A record that takes the account's credentials whatever the permissions:
\* C19 does not hold of it.
NewSessionCopyAll(intent_token_id, perms, sync_url) ==
    [account |-> [primary |-> acct_primary, passkeys |-> acct_passkeys],
     intent_token_id |-> intent_token_id,
     ext_cred_portal |->
        IF acct_sync_parent /\ perms.ext_cred_portal_can_view
        THEN (IF sync_url THEN "Some" ELSE "Hidden")
        ELSE IF acct_sync_parent THEN "Hidden"
        ELSE "None",
     primary |-> acct_primary,
     primary_can_edit |-> perms.primary_can_edit,
     passkeys |-> acct_passkeys,
     passkeys_can_edit |-> perms.passkeys_can_edit,
     mfaregstate |-> [type |-> "None"]]

\* A record whose portal is None when the caller may not view it: C20 does
\* not hold of it.
NewSessionPortalNone(intent_token_id, perms, sync_url) ==
    [account |-> [primary |-> acct_primary, passkeys |-> acct_passkeys],
     intent_token_id |-> intent_token_id,
     ext_cred_portal |->
        IF acct_sync_parent /\ perms.ext_cred_portal_can_view
        THEN (IF sync_url THEN "Some" ELSE "Hidden")
        ELSE "None",
     primary |-> IF perms.primary_can_edit THEN acct_primary ELSE None,
     primary_can_edit |-> perms.primary_can_edit,
     passkeys |-> IF perms.passkeys_can_edit THEN acct_passkeys ELSE EmptyMap,
     passkeys_can_edit |-> perms.passkeys_can_edit,
     mfaregstate |-> [type |-> "None"]]

\* The record create_credupdate_session builds.  sync_url: the portal url of
\* the sync parent entry, if it has one.
NewSession(intent_token_id, perms, sync_url) ==
    [account |-> [primary |-> acct_primary, passkeys |-> acct_passkeys],
     intent_token_id |-> intent_token_id,
     ext_cred_portal |->
        IF acct_sync_parent /\ perms.ext_cred_portal_can_view
        THEN (IF sync_url THEN "Some" ELSE "Hidden")
        ELSE IF acct_sync_parent THEN "Hidden"
        ELSE "None",
     primary |-> IF perms.primary_can_edit THEN acct_primary ELSE None,
     primary_can_edit |-> perms.primary_can_edit,
     passkeys |-> IF perms.passkeys_can_edit THEN acct_passkeys ELSE EmptyMap,
     passkeys_can_edit |-> perms.passkeys_can_edit,
     mfaregstate |-> [type |-> "None"]]

\* expire_credential_update_sessions: split_off_lt keeps the identifiers
\* not below the one derived from ct.
expire_credential_update_sessions(store, ct) ==
    LET split_at == uuid_from_duration(ct, sid) IN
    [id \in {i \in DOMAIN store : ~UuidLt(i, split_at)} |-> store[id]]

\* create_credupdate_session: prune, insert, issue the token.
create_credupdate_session(op, sessionid, intent_token_id, perms, ct, sync_url) ==
    LET session == NewSession(intent_token_id, perms, sync_url)
        max_ttl == ct + MAXIMUM_CRED_UPDATE_TTL
        kept == expire_credential_update_sessions(cred_update_sessions, ct)
    IN
    /\ opens > 0
    /\ cred_update_sessions' = MapPut(kept, sessionid, session)
    /\ issued' = issued \cup {SessionToken(sessionid, max_ttl)}
    /\ last' = Result(op, "Ok", Status(session))
    /\ created' = created + 1
    /\ opens' = opens - 1
    /\ opened' = MapPut([id \in DOMAIN kept |-> opened[id]], sessionid,
                        [perms |-> perms, ext_cred_portal |-> session.ext_cred_portal,
                         epoch |-> epoch, edited |-> FALSE])

\* A call that fails and changes nothing.
Fail(op, err) ==
    /\ last' = Result(op, err, NoStatus)
    /\ about' = None
    /\ UNCHANGED calls
    /\ UNCHANGED <<acctVars, cred_update_sessions, issued, nintents, histVars>>

\* ------------------------------------------------- opening a session

\* init_credential_update
init_credential_update(ident, ct, sync_url) ==
    LET v == validate_init_credential_update(ident) IN
    IF v.err # "Ok" THEN Fail("init", v.err)
    ELSE
      LET sessionid == uuid_from_duration(ct + MAXIMUM_CRED_UPDATE_TTL, sid) IN
      /\ create_credupdate_session("init", sessionid, None, v.perms, ct, sync_url)
      /\ about' = None
      /\ UNCHANGED calls
      /\ UNCHANGED <<acctVars, nintents, edits, exch_hist, finished, epoch, granted>>

\* The grants init_credential_update_intent removes: those past their expiry.
ExpiredIntents(intents, ct) == {i \in DOMAIN intents : ct >= intents[i].max_ttl}

\* The modification list of init_credential_update_intent.
IntentModlist(intent_id, max_ttl, perms, ct) ==
    <<Present("CredentialUpdateIntentToken", intent_id, Valid(max_ttl, perms))>>
    \o [k \in 1..Cardinality(ExpiredIntents(acct_intents, ct)) |->
          Removed("CredentialUpdateIntentToken",
                  SetToSeq(ExpiredIntents(acct_intents, ct))[k])]

\* init_credential_update_intent
init_credential_update_intent(ident, ttl, ct) ==
    LET v == validate_init_credential_update(ident) IN
    IF v.err # "Ok" THEN Fail("init_intent", v.err)
    ELSE
      LET mttl == IF ttl = NoTtl THEN DEFAULT_INTENT_TTL ELSE ttl
          clamped_mttl == Clamp(mttl, MINIMUM_INTENT_TTL, MAXIMUM_INTENT_TTL)
          max_ttl == ct + clamped_mttl
          intent_id == nintents + 1
      IN
      /\ opens > 0
      /\ internal_modify(IntentModlist(intent_id, max_ttl, v.perms, ct))
      /\ nintents' = intent_id
      /\ opens' = opens - 1
      /\ last' = Result("init_intent", "Ok", NoStatus)
      /\ granted' = MapPut(granted, intent_id, [max_ttl |-> max_ttl, perms |-> v.perms])
      /\ about' = None
      /\ UNCHANGED calls
      /\ UNCHANGED <<cred_update_sessions, issued, created, edits, exch_hist,
                     finished, epoch, opened>>

\* internal_search by intent id: the entries that hold it, this account's
\* and those of other accounts.
Matched(intent_id) ==
    (IF intent_id \in DOMAIN acct_intents THEN {"target"} ELSE {})
    \cup (IF intent_id \in other_intents THEN {"other"} ELSE {})

\* OperationError::Wait(time): what the caller gets besides the error kind.
WaitUntil(t) == [type |-> "Wait", until |-> t]

\* An exchange that accepts a Valid grant at the instant of its expiry:
\* C7 does not hold of it.
ExchangeCheckAtExpiry(intent_id, ct) ==
    IF Matched(intent_id) = {} THEN [err |-> "Wait", until |-> ct + 150]
    ELSE IF Cardinality(Matched(intent_id)) > 1 THEN [err |-> "InvalidState"]
    ELSE
      LET g == acct_intents[intent_id] IN
      IF g.state = "Consumed" THEN [err |-> "SessionExpired"]
      ELSE IF g.state = "InProgress"
           THEN [err |-> "Ok", max_ttl |-> g.max_ttl, perms |-> g.perms]
      ELSE IF ct > g.max_ttl THEN [err |-> "SessionExpired"]
      ELSE [err |-> "Ok", max_ttl |-> g.max_ttl, perms |-> g.perms]

\* An exchange that treats a Consumed grant as one still to be used:
\* C6 does not hold of it.
ExchangeCheckConsumed(intent_id, ct) ==
    IF Matched(intent_id) = {} THEN [err |-> "Wait", until |-> ct + 150]
    ELSE IF Cardinality(Matched(intent_id)) > 1 THEN [err |-> "InvalidState"]
    ELSE
      LET g == acct_intents[intent_id] IN
      IF g.state = "Consumed"
      THEN IF ct >= g.max_ttl THEN [err |-> "SessionExpired"]
           ELSE [err |-> "Ok", max_ttl |-> g.max_ttl, perms |-> Perms(FALSE, TRUE, TRUE)]
      ELSE IF g.state = "InProgress"
           THEN [err |-> "Ok", max_ttl |-> g.max_ttl, perms |-> g.perms]
      ELSE IF ct >= g.max_ttl THEN [err |-> "SessionExpired"]
      ELSE [err |-> "Ok", max_ttl |-> g.max_ttl, perms |-> g.perms]

\* An exchange that takes this account's entry although another account
\* holds the identifier too: C23 does not hold of it.
ExchangeCheckFirstMatch(intent_id, ct) ==
    IF Matched(intent_id) = {} THEN [err |-> "Wait", until |-> ct + 150]
    ELSE
      LET g == acct_intents[intent_id] IN
      IF g.state = "Consumed" THEN [err |-> "SessionExpired"]
      ELSE IF g.state = "InProgress"
           THEN [err |-> "Ok", max_ttl |-> g.max_ttl, perms |-> g.perms]
      ELSE IF ct >= g.max_ttl THEN [err |-> "SessionExpired"]
      ELSE [err |-> "Ok", max_ttl |-> g.max_ttl, perms |-> g.perms]

\* What exchange_intent_credential_update decides from the ledger: an error,
\* or the expiry and permissions the new session is opened with.
ExchangeCheck(intent_id, ct) ==
    IF Matched(intent_id) = {} THEN [err |-> "Wait", until |-> ct + 150]
    ELSE IF Cardinality(Matched(intent_id)) > 1 THEN [err |-> "InvalidState"]
    ELSE
      LET g == acct_intents[intent_id] IN
      IF g.state = "Consumed" THEN [err |-> "SessionExpired"]
      ELSE IF g.state = "InProgress"
           THEN [err |-> "Ok", max_ttl |-> g.max_ttl, perms |-> g.perms]
      ELSE IF ct >= g.max_ttl THEN [err |-> "SessionExpired"]
      ELSE [err |-> "Ok", max_ttl |-> g.max_ttl, perms |-> g.perms]

\* The modification list of exchange_intent_credential_update.
ExchangeModlist(intent_id, max_ttl, perms, session_id, ct) ==
    << Removed("CredentialUpdateIntentToken", intent_id),
       Present("CredentialUpdateIntentToken", intent_id,
               InProgress(max_ttl, perms, session_id, ct + MAXIMUM_CRED_UPDATE_TTL)) >>

\* exchange_intent_credential_update.  An identifier only another account
\* holds opens a session on that account, which is not the one described
\* here.
exchange_intent_credential_update(intent_id, ct, sync_url) ==
    LET c == ExchangeCheck(intent_id, ct) IN
    /\ about' = Some([by |-> "exchange", intent |-> intent_id])
    /\ UNCHANGED calls
    /\ Matched(intent_id) # {"other"}
    /\ IF c.err # "Ok" THEN
         /\ last' = Result("exchange", c.err,
                           IF c.err = "Wait" THEN WaitUntil(c.until) ELSE NoStatus)
         /\ UNCHANGED <<acctVars, cred_update_sessions, issued, nintents, histVars>>
       ELSE
         LET session_id == uuid_from_duration(ct + MAXIMUM_CRED_UPDATE_TTL, sid)
         IN
         /\ internal_modify(ExchangeModlist(intent_id, c.max_ttl, c.perms, session_id, ct))
         /\ create_credupdate_session("exchange", session_id, Some(intent_id),
                                      c.perms, ct, sync_url)
         /\ exch_hist' = [exch_hist EXCEPT ![intent_id] = Append(@, session_id)]
         /\ UNCHANGED <<nintents, edits, finished, epoch, granted>>

\* ------------------------------------------------------- commit and cancel

\* The threads whose call in flight holds the handle of this session.
Holders(sessionid) ==
    {t \in Threads : /\ calls[t] # None
                     /\ calls[t].v.phase = "locked"
                     /\ calls[t].v.tok.sessionid = sessionid}

\* An acquisition that succeeds whoever holds the handle: C16 does not hold
\* of it.
try_lock_always(sessionid) == "Ok"

\* session_handle.try_lock(): fails at once while another call holds the
\* handle; every caller maps the failure to InvalidState.
try_lock(sessionid) ==
    IF Holders(sessionid) # {} THEN "InvalidState" ELSE "Ok"

\* A commit_common that clones the record without acquiring its handle: C15
\* does not hold of it.
credential_update_commit_common_unlocked(tok, ct) ==
    IF OpenToken(tok).err # "Ok" THEN [err |-> OpenToken(tok).err]
    ELSE IF ct >= tok.max_ttl THEN [err |-> "SessionExpired"]
    ELSE IF tok.sessionid \notin DOMAIN cred_update_sessions THEN [err |-> "InvalidState"]
    ELSE [err |-> "Ok", lock |-> "Ok", session |-> cred_update_sessions[tok.sessionid]]

\* credential_update_commit_common: open the token, check its expiry, take
\* the record out of the store, then acquire its handle and clone the record.
credential_update_commit_common(tok, ct) ==
    IF OpenToken(tok).err # "Ok" THEN [err |-> OpenToken(tok).err]
    ELSE IF ct >= tok.max_ttl THEN [err |-> "SessionExpired"]
    ELSE IF tok.sessionid \notin DOMAIN cred_update_sessions THEN [err |-> "InvalidState"]
    ELSE [err |-> "Ok", lock |-> try_lock(tok.sessionid),
          session |-> cred_update_sessions[tok.sessionid]]

\* A grant check that does not compare the session id: C9 does not hold of it.
IntentInProgressForAny(intent_token_id, sessionid) ==
    /\ intent_token_id \in DOMAIN acct_intents
    /\ acct_intents[intent_token_id].state = "InProgress"

\* The grant a commit or cancel requires: InProgress for this very session.
IntentInProgressFor(intent_token_id, sessionid) ==
    /\ intent_token_id \in DOMAIN acct_intents
    /\ acct_intents[intent_token_id].state = "InProgress"
    /\ acct_intents[intent_token_id].session_id = sessionid

\* A commit that leaves the intent token as it is: C8 does not hold of it.
CommitIntentModsNone(session) == <<>>

\* The part of commit's modification list that consumes the intent token.
CommitIntentMods(session) ==
    IF session.intent_token_id = None THEN <<>>
    ELSE << Removed("CredentialUpdateIntentToken", session.intent_token_id.v),
            Present("CredentialUpdateIntentToken", session.intent_token_id.v,
                    Consumed(acct_intents[session.intent_token_id.v].max_ttl)) >>

\* A commit that writes the primary credential whatever the session may
\* edit: C2 does not hold of it.
CommitPrimaryModsAlways(session) ==
    IF session.primary = None THEN <<Purged("PrimaryCredential")>>
    ELSE << Purged("PrimaryCredential"),
            Present("PrimaryCredential", "primary", session.primary.v) >>

\* The part of commit's modification list that writes the primary credential.
CommitPrimaryMods(session) ==
    IF ~session.primary_can_edit THEN <<>>
    ELSE IF session.primary = None THEN <<Purged("PrimaryCredential")>>
    ELSE << Purged("PrimaryCredential"),
            Present("PrimaryCredential", "primary", session.primary.v) >>

\* The part of commit's modification list that writes the passkeys.
CommitPasskeyMods(session) ==
    IF ~session.passkeys_can_edit THEN <<>>
    ELSE <<Purged("PassKeys")>>
         \o [k \in 1..Cardinality(DOMAIN session.passkeys) |->
               LET uuid == SetToSeq(DOMAIN session.passkeys)[k] IN
               Present("PassKeys", uuid, session.passkeys[uuid])]

\* The record leaves the store together with its history entry, whether the
\* call then succeeds (ok) or not.
RemoveSession(sessionid, by, ok) ==
    /\ UNCHANGED calls
    /\ cred_update_sessions' = MapDel(cred_update_sessions, sessionid)
    /\ opened' = MapDel(opened, sessionid)
    /\ about' = Some([by |-> by, ok |-> ok, perms |-> opened[sessionid].perms,
                        epoch |-> opened[sessionid].epoch,
                        edited |-> opened[sessionid].edited,
                        mfareg |-> cred_update_sessions[sessionid].mfaregstate.type])

\* History: the session a successful commit or cancel closed.
Closed(sessionid, session, by) ==
    finished' = finished \cup
        {[id |-> sessionid, intent |-> session.intent_token_id, by |-> by]}

\* commit_credential_update
commit_credential_update(tok, ct) ==
    LET c == credential_update_commit_common(tok, ct) IN
    IF c.err # "Ok" THEN Fail("commit", c.err)
    ELSE
      LET session == c.session IN
      IF c.lock # "Ok"
         \/ ~can_commit(session)
         \/ (session.intent_token_id # None
             /\ ~IntentInProgressFor(session.intent_token_id.v, tok.sessionid))
      THEN
        /\ RemoveSession(tok.sessionid, "commit", FALSE)
        /\ last' = Result("commit", "InvalidState", NoStatus)
        /\ UNCHANGED <<acctVars, issued, nintents, created, opens, edits, exch_hist,
                       finished, epoch, granted>>
      ELSE
        LET modlist == CommitIntentMods(session) \o CommitPrimaryMods(session)
                       \o CommitPasskeyMods(session) IN
        /\ RemoveSession(tok.sessionid, "commit", TRUE)
        /\ IF modlist = <<>> THEN UNCHANGED acctVars ELSE internal_modify(modlist)
        /\ last' = Result("commit", "Ok", NoStatus)
        /\ Closed(tok.sessionid, session, "commit")
        /\ epoch' = epoch + 1
        /\ UNCHANGED <<issued, nintents, created, opens, edits, exch_hist, granted>>

\* A cancel that also writes the session's primary credential: C3 does not
\* hold of it.
CancelIntentModsAndPrimary(session) ==
    (IF session.intent_token_id = None THEN <<>>
     ELSE << Removed("CredentialUpdateIntentToken", session.intent_token_id.v),
             Present("CredentialUpdateIntentToken", session.intent_token_id.v,
                     Valid(acct_intents[session.intent_token_id.v].max_ttl,
                           acct_intents[session.intent_token_id.v].perms)) >>)
    \o CommitPrimaryMods(session)

\* A cancel that gives the grant the expiry of the session it releases:
\* C10 does not hold of it.
CancelIntentModsSessionTtl(session) ==
    IF session.intent_token_id = None THEN <<>>
    ELSE << Removed("CredentialUpdateIntentToken", session.intent_token_id.v),
            Present("CredentialUpdateIntentToken", session.intent_token_id.v,
                    Valid(acct_intents[session.intent_token_id.v].session_ttl,
                          acct_intents[session.intent_token_id.v].perms)) >>

\* The modification list of cancel: the grant goes back to Valid.
CancelIntentMods(session) ==
    IF session.intent_token_id = None THEN <<>>
    ELSE << Removed("CredentialUpdateIntentToken", session.intent_token_id.v),
            Present("CredentialUpdateIntentToken", session.intent_token_id.v,
                    Valid(acct_intents[session.intent_token_id.v].max_ttl,
                          acct_intents[session.intent_token_id.v].perms)) >>

\* cancel_credential_update
cancel_credential_update(tok, ct) ==
    LET c == credential_update_commit_common(tok, ct) IN
    IF c.err # "Ok" THEN Fail("cancel", c.err)
    ELSE
      LET session == c.session IN
      IF c.lock # "Ok"
         \/ (session.intent_token_id # None
             /\ ~IntentInProgressFor(session.intent_token_id.v, tok.sessionid))
      THEN
        /\ RemoveSession(tok.sessionid, "cancel", FALSE)
        /\ last' = Result("cancel", "InvalidState", NoStatus)
        /\ UNCHANGED <<acctVars, issued, nintents, created, opens, edits, exch_hist,
                       finished, epoch, granted>>
      ELSE
        LET modlist == CancelIntentMods(session) IN
        /\ RemoveSession(tok.sessionid, "cancel", TRUE)
        /\ IF modlist = <<>> THEN UNCHANGED acctVars ELSE internal_modify(modlist)
        /\ last' = Result("cancel", "Ok", NoStatus)
        /\ Closed(tok.sessionid, session, "cancel")
        /\ UNCHANGED <<issued, nintents, created, opens, edits, exch_hist, epoch, granted>>

\* ------------------------------------------------ status and edit operations

\* A lookup that accepts a token at the instant of its expiry: C12 does not
\* hold of it.
get_current_session_at_expiry(tok, ct) ==
    IF OpenToken(tok).err # "Ok" THEN [err |-> OpenToken(tok).err]
    ELSE IF ct > tok.max_ttl THEN [err |-> "SessionExpired"]
    ELSE IF tok.sessionid \notin DOMAIN cred_update_sessions THEN [err |-> "InvalidState"]
    ELSE [err |-> "Ok", session |-> cred_update_sessions[tok.sessionid]]

\* get_current_session: open the token, check its expiry, look the record up.
get_current_session(tok, ct) ==
    IF OpenToken(tok).err # "Ok" THEN [err |-> OpenToken(tok).err]
    ELSE IF ct >= tok.max_ttl THEN [err |-> "SessionExpired"]
    ELSE IF tok.sessionid \notin DOMAIN cred_update_sessions THEN [err |-> "InvalidState"]
    ELSE [err |-> "Ok", session |-> cred_update_sessions[tok.sessionid]]

\* The session a status or edit call works on: the record behind the handle
\* get_current_session found, once try_lock has acquired it.
lock_session(g, tok) ==
    IF g.err # "Ok" THEN g
    ELSE IF try_lock(tok.sessionid) # "Ok" THEN [err |-> "InvalidState"]
    ELSE g

\* The calls in flight after a write to the record of a session: those that
\* have its handle share the record.
ShareRecord(sessionid, session) ==
    [t \in Threads |->
        IF calls[t] # None /\ calls[t].v.tok.sessionid = sessionid
        THEN Some([calls[t].v EXCEPT !.record = session])
        ELSE calls[t]]

\* An edit that succeeded: the record is replaced and its status returned.
EditOk(op, tok, session, status) ==
    /\ edits > 0
    /\ cred_update_sessions' = [cred_update_sessions EXCEPT ![tok.sessionid] = session]
    /\ last' = Result(op, "Ok", status)
    /\ edits' = edits - 1
    /\ opened' = [opened EXCEPT ![tok.sessionid].edited = TRUE]
    /\ about' = None
    /\ calls' = ShareRecord(tok.sessionid, session)
    /\ UNCHANGED <<acctVars, issued, nintents, created, opens, exch_hist, finished, epoch,
                   granted>>

\* credential_update_status
credential_update_status(tok, ct) ==
    LET g == lock_session(get_current_session(tok, ct), tok) IN
    IF g.err # "Ok" THEN Fail("status", g.err)
    ELSE
      /\ last' = Result("status", "Ok", Status(g.session))
      /\ about' = None
      /\ UNCHANGED calls
      /\ UNCHANGED <<acctVars, cred_update_sessions, issued, nintents, histVars>>

\* A set password that always builds a new password-only credential: C32
\* does not hold of it.
set_password_locked_replace(session, pw) ==
    IF ~session.primary_can_edit THEN [err |-> "AccessDenied"]
    ELSE IF check_password_quality(pw) # "Ok" THEN [err |-> "PasswordQuality"]
    ELSE [err |-> "Ok", session |-> [session EXCEPT !.primary = Some(new_password_only(pw))]]

\* credential_primary_set_password once it holds the handle: the permission
\* and quality checks, then the new primary credential in the record.
set_password_locked(session, pw) ==
    IF ~session.primary_can_edit THEN [err |-> "AccessDenied"]
    ELSE IF check_password_quality(pw) # "Ok" THEN [err |-> "PasswordQuality"]
    ELSE
      LET ncred == IF session.primary = None THEN new_password_only(pw)
                   ELSE set_password(session.primary.v, pw)
      IN [err |-> "Ok", session |-> [session EXCEPT !.primary = Some(ncred)]]

\* credential_primary_set_password
credential_primary_set_password(tok, ct, pw) ==
    LET g == lock_session(get_current_session(tok, ct), tok) IN
    IF g.err # "Ok" THEN Fail("set_password", g.err)
    ELSE
      LET r == set_password_locked(g.session, pw) IN
      IF r.err # "Ok" THEN Fail("set_password", r.err)
      ELSE EditOk("set_password", tok, r.session, Status(r.session))

\* An init TOTP that does not ask for primary_can_edit: C38 does not hold
\* of it.
credential_primary_init_totp_unchecked(tok, ct, secret) ==
    LET g == lock_session(get_current_session(tok, ct), tok) IN
    IF g.err # "Ok" THEN Fail("init_totp", g.err)
    ELSE IF g.session.mfaregstate.type # "None" THEN Fail("init_totp", "InvalidState")
    ELSE
      LET n == [g.session EXCEPT
                  !.mfaregstate = [type |-> "TotpInit", totp |-> generate_secure(secret)]]
      IN EditOk("init_totp", tok, n, Status(n))

\* credential_primary_init_totp
credential_primary_init_totp(tok, ct, secret) ==
    LET g == lock_session(get_current_session(tok, ct), tok) IN
    IF g.err # "Ok" THEN Fail("init_totp", g.err)
    ELSE IF ~g.session.primary_can_edit THEN Fail("init_totp", "AccessDenied")
    ELSE IF g.session.mfaregstate.type # "None" THEN Fail("init_totp", "InvalidState")
    ELSE
      LET n == [g.session EXCEPT
                  !.mfaregstate = [type |-> "TotpInit", totp |-> generate_secure(secret)]]
      IN EditOk("init_totp", tok, n, Status(n))

\* A check that attaches the SHA-1 variant at once when the code verifies
\* under SHA-1: C25 does not hold of it.
credential_primary_check_totp_sha1_attach(tok, ct, totp_chal, label) ==
    LET g == lock_session(get_current_session(tok, ct), tok) IN
    IF g.err # "Ok" THEN Fail("check_totp", g.err)
    ELSE IF ~g.session.primary_can_edit THEN Fail("check_totp", "AccessDenied")
    ELSE IF g.session.mfaregstate.type \notin {"TotpInit", "TotpTryAgain", "TotpInvalidSha1"}
         THEN Fail("check_totp", "InvalidRequestState")
    ELSE
      LET totp_token == g.session.mfaregstate.totp
          token_sha1 == downgrade_to_legacy(totp_token)
      IN
      IF verify(totp_token, totp_chal) \/ verify(token_sha1, totp_chal) THEN
         IF g.session.primary = None THEN Fail("check_totp", "InvalidState")
         ELSE
           LET n == [g.session EXCEPT
                       !.primary = Some(append_totp(g.session.primary.v, label, totp_chal)),
                       !.mfaregstate = [type |-> "None"]]
           IN EditOk("check_totp", tok, n, Status(n))
      ELSE
         LET n == [g.session EXCEPT
                     !.mfaregstate = [type |-> "TotpTryAgain", totp |-> totp_token]]
         IN EditOk("check_totp", tok, n, Status(n))

\* credential_primary_check_totp
credential_primary_check_totp(tok, ct, totp_chal, label) ==
    LET g == lock_session(get_current_session(tok, ct), tok) IN
    IF g.err # "Ok" THEN Fail("check_totp", g.err)
    ELSE IF ~g.session.primary_can_edit THEN Fail("check_totp", "AccessDenied")
    ELSE IF g.session.mfaregstate.type \notin {"TotpInit", "TotpTryAgain", "TotpInvalidSha1"}
         THEN Fail("check_totp", "InvalidRequestState")
    ELSE
      LET totp_token == g.session.mfaregstate.totp
          token_sha1 == downgrade_to_legacy(totp_token)
      IN
      IF verify(totp_token, totp_chal) THEN
         IF g.session.primary = None THEN Fail("check_totp", "InvalidState")
         ELSE
           LET n == [g.session EXCEPT
                       !.primary = Some(append_totp(g.session.primary.v, label, totp_token)),
                       !.mfaregstate = [type |-> "None"]]
           IN EditOk("check_totp", tok, n, Status(n))
      ELSE IF verify(token_sha1, totp_chal) THEN
         LET n == [g.session EXCEPT
                     !.mfaregstate = [type |-> "TotpInvalidSha1", totp |-> totp_token,
                                      sha1 |-> token_sha1, label |-> label]]
         IN EditOk("check_totp", tok, n, Status(n))
      ELSE
         LET n == [g.session EXCEPT
                     !.mfaregstate = [type |-> "TotpTryAgain", totp |-> totp_token]]
         IN EditOk("check_totp", tok, n, Status(n))

\* An accept that takes the SHA-1 variant of whatever secret awaits
\* verification: C28 does not hold of it.
credential_primary_accept_sha1_totp_unchecked(tok, ct) ==
    LET g == lock_session(get_current_session(tok, ct), tok) IN
    IF g.err # "Ok" THEN Fail("accept_sha1_totp", g.err)
    ELSE IF ~g.session.primary_can_edit THEN Fail("accept_sha1_totp", "AccessDenied")
    ELSE IF g.session.mfaregstate.type \notin {"TotpInit", "TotpTryAgain", "TotpInvalidSha1"}
         THEN Fail("accept_sha1_totp", "InvalidRequestState")
    ELSE IF g.session.primary = None THEN Fail("accept_sha1_totp", "InvalidState")
    ELSE
      LET n == [g.session EXCEPT
                  !.primary = Some(append_totp(g.session.primary.v, "l1",
                                       downgrade_to_legacy(g.session.mfaregstate.totp))),
                  !.mfaregstate = [type |-> "None"]]
      IN EditOk("accept_sha1_totp", tok, n, Status(n))

\* credential_primary_accept_sha1_totp
credential_primary_accept_sha1_totp(tok, ct) ==
    LET g == lock_session(get_current_session(tok, ct), tok) IN
    IF g.err # "Ok" THEN Fail("accept_sha1_totp", g.err)
    ELSE IF ~g.session.primary_can_edit THEN Fail("accept_sha1_totp", "AccessDenied")
    ELSE IF g.session.mfaregstate.type # "TotpInvalidSha1"
         THEN Fail("accept_sha1_totp", "InvalidRequestState")
    ELSE IF g.session.primary = None THEN Fail("accept_sha1_totp", "InvalidState")
    ELSE
      LET n == [g.session EXCEPT
                  !.primary = Some(append_totp(g.session.primary.v,
                                               g.session.mfaregstate.label,
                                               g.session.mfaregstate.sha1)),
                  !.mfaregstate = [type |-> "None"]]
      IN EditOk("accept_sha1_totp", tok, n, Status(n))

\* credential_primary_remove_totp
credential_primary_remove_totp(tok, ct, label) ==
    LET g == lock_session(get_current_session(tok, ct), tok) IN
    IF g.err # "Ok" THEN Fail("remove_totp", g.err)
    ELSE IF ~g.session.primary_can_edit THEN Fail("remove_totp", "AccessDenied")
    ELSE IF g.session.mfaregstate.type # "None" THEN Fail("remove_totp", "InvalidState")
    ELSE IF g.session.primary = None THEN Fail("remove_totp", "InvalidState")
    ELSE
      LET n == [g.session EXCEPT
                  !.primary = Some(remove_totp(g.session.primary.v, label)),
                  !.mfaregstate = [type |-> "None"]]
      IN EditOk("remove_totp", tok, n, Status(n))

\* An init backup codes that attaches the codes whether or not the
\* credential has MFA: C21 does not hold of it.
credential_primary_init_backup_codes_any(tok, ct) ==
    LET g == lock_session(get_current_session(tok, ct), tok) IN
    IF g.err # "Ok" THEN Fail("init_backup_codes", g.err)
    ELSE IF ~g.session.primary_can_edit THEN Fail("init_backup_codes", "AccessDenied")
    ELSE IF g.session.primary = None THEN Fail("init_backup_codes", "InvalidState")
    ELSE
      LET n == [g.session EXCEPT !.primary = Some([g.session.primary.v EXCEPT
                                                     !.backup_code = TRUE])]
      IN EditOk("init_backup_codes", tok, n,
                [Status(n) EXCEPT !.mfaregstate = "BackupCodes"])

\* An init backup codes that keeps the codes in the sub-state of the record:
\* C31 does not hold of it.
credential_primary_init_backup_codes_stored(tok, ct) ==
    LET g == lock_session(get_current_session(tok, ct), tok) IN
    IF g.err # "Ok" THEN Fail("init_backup_codes", g.err)
    ELSE IF ~g.session.primary_can_edit THEN Fail("init_backup_codes", "AccessDenied")
    ELSE IF g.session.primary = None THEN Fail("init_backup_codes", "InvalidState")
    ELSE IF update_backup_code(g.session.primary.v) = None
         THEN Fail("init_backup_codes", "InvalidState")
    ELSE
      LET n == [g.session EXCEPT !.primary = update_backup_code(g.session.primary.v),
                                 !.mfaregstate = [type |-> "BackupCodes"]]
      IN EditOk("init_backup_codes", tok, n, Status(n))

\* credential_primary_init_backup_codes: the returned status alone carries
\* the codes.
credential_primary_init_backup_codes(tok, ct) ==
    LET g == lock_session(get_current_session(tok, ct), tok) IN
    IF g.err # "Ok" THEN Fail("init_backup_codes", g.err)
    ELSE IF ~g.session.primary_can_edit THEN Fail("init_backup_codes", "AccessDenied")
    ELSE IF g.session.primary = None THEN Fail("init_backup_codes", "InvalidState")
    ELSE IF update_backup_code(g.session.primary.v) = None
         THEN Fail("init_backup_codes", "InvalidState")
    ELSE
      LET n == [g.session EXCEPT !.primary = update_backup_code(g.session.primary.v)]
      IN EditOk("init_backup_codes", tok, n,
                [Status(n) EXCEPT !.mfaregstate = "BackupCodes"])

\* A remove backup codes that succeeds when there are none to remove: C22
\* does not hold of it.
credential_primary_remove_backup_codes_lenient(tok, ct) ==
    LET g == lock_session(get_current_session(tok, ct), tok) IN
    IF g.err # "Ok" THEN Fail("remove_backup_codes", g.err)
    ELSE IF ~g.session.primary_can_edit THEN Fail("remove_backup_codes", "AccessDenied")
    ELSE IF g.session.primary = None THEN Fail("remove_backup_codes", "InvalidState")
    ELSE
      LET n == [g.session EXCEPT !.primary = Some([g.session.primary.v EXCEPT
                                                     !.backup_code = FALSE])]
      IN EditOk("remove_backup_codes", tok, n, Status(n))

\* credential_primary_remove_backup_codes
credential_primary_remove_backup_codes(tok, ct) ==
    LET g == lock_session(get_current_session(tok, ct), tok) IN
    IF g.err # "Ok" THEN Fail("remove_backup_codes", g.err)
    ELSE IF ~g.session.primary_can_edit THEN Fail("remove_backup_codes", "AccessDenied")
    ELSE IF g.session.primary = None THEN Fail("remove_backup_codes", "InvalidState")
    ELSE IF remove_backup_code(g.session.primary.v) = None
         THEN Fail("remove_backup_codes", "InvalidState")
    ELSE
      LET n == [g.session EXCEPT !.primary = remove_backup_code(g.session.primary.v)]
      IN EditOk("remove_backup_codes", tok, n, Status(n))

\* A passkey init that starts over whatever registration is in progress:
\* C27 does not hold of it.
credential_passkey_init_restart(tok, ct, started) ==
    LET g == lock_session(get_current_session(tok, ct), tok) IN
    IF g.err # "Ok" THEN Fail("passkey_init", g.err)
    ELSE IF ~g.session.passkeys_can_edit THEN Fail("passkey_init", "AccessDenied")
    ELSE IF ~started THEN Fail("passkey_init", "Webauthn")
    ELSE
      LET n == [g.session EXCEPT !.mfaregstate = [type |-> "Passkey"]]
      IN EditOk("passkey_init", tok, n, Status(n))

\* credential_passkey_init.  started: whether start_passkey_registration
\* succeeds.
credential_passkey_init(tok, ct, started) ==
    LET g == lock_session(get_current_session(tok, ct), tok) IN
    IF g.err # "Ok" THEN Fail("passkey_init", g.err)
    ELSE IF ~g.session.passkeys_can_edit THEN Fail("passkey_init", "AccessDenied")
    ELSE IF g.session.mfaregstate.type # "None" THEN Fail("passkey_init", "InvalidState")
    ELSE IF ~started THEN Fail("passkey_init", "Webauthn")
    ELSE
      LET n == [g.session EXCEPT !.mfaregstate = [type |-> "Passkey"]]
      IN EditOk("passkey_init", tok, n, Status(n))

\* A finish that keeps the new passkey alone: C29 does not hold of it.
credential_passkey_finish_replace(tok, ct, label, reg_ok, pk_id) ==
    LET g == lock_session(get_current_session(tok, ct), tok) IN
    IF g.err # "Ok" THEN Fail("passkey_finish", g.err)
    ELSE IF ~g.session.passkeys_can_edit THEN Fail("passkey_finish", "AccessDenied")
    ELSE IF g.session.mfaregstate.type # "Passkey"
         THEN Fail("passkey_finish", "InvalidRequestState")
    ELSE IF ~reg_ok THEN Fail("passkey_finish", "Webauthn")
    ELSE
      LET n == [g.session EXCEPT !.passkeys = (pk_id :> label),
                                 !.mfaregstate = [type |-> "None"]]
      IN /\ pk_id \notin DOMAIN g.session.passkeys \cup DOMAIN acct_passkeys
         /\ EditOk("passkey_finish", tok, n, Status(n))

\* credential_passkey_finish.  reg_ok: whether the registration response
\* verifies; pk_id: the fresh uuid of the new passkey.
credential_passkey_finish(tok, ct, label, reg_ok, pk_id) ==
    LET g == lock_session(get_current_session(tok, ct), tok) IN
    IF g.err # "Ok" THEN Fail("passkey_finish", g.err)
    ELSE IF ~g.session.passkeys_can_edit THEN Fail("passkey_finish", "AccessDenied")
    ELSE IF g.session.mfaregstate.type # "Passkey"
         THEN Fail("passkey_finish", "InvalidRequestState")
    ELSE IF ~reg_ok THEN Fail("passkey_finish", "Webauthn")
    ELSE
      LET n == [g.session EXCEPT !.passkeys = MapPut(@, pk_id, label),
                                 !.mfaregstate = [type |-> "None"]]
      IN /\ pk_id \notin DOMAIN g.session.passkeys \cup DOMAIN acct_passkeys
         /\ EditOk("passkey_finish", tok, n, Status(n))

\* credential_passkey_remove
credential_passkey_remove(tok, ct, uuid) ==
    LET g == lock_session(get_current_session(tok, ct), tok) IN
    IF g.err # "Ok" THEN Fail("passkey_remove", g.err)
    ELSE IF ~g.session.passkeys_can_edit THEN Fail("passkey_remove", "AccessDenied")
    ELSE
      LET n == [g.session EXCEPT !.passkeys = MapDel(@, uuid)]
      IN EditOk("passkey_remove", tok, n, Status(n))

\* A cancel of the registration that asks for the permission to edit the
\* primary: C30 does not hold of it.
credential_update_cancel_mfareg_checked(tok, ct) ==
    LET g == lock_session(get_current_session(tok, ct), tok) IN
    IF g.err # "Ok" THEN Fail("cancel_mfareg", g.err)
    ELSE IF ~g.session.primary_can_edit THEN Fail("cancel_mfareg", "AccessDenied")
    ELSE
      LET n == [g.session EXCEPT !.mfaregstate = [type |-> "None"]]
      IN EditOk("cancel_mfareg", tok, n, Status(n))

\* credential_update_cancel_mfareg
credential_update_cancel_mfareg(tok, ct) ==
    LET g == lock_session(get_current_session(tok, ct), tok) IN
    IF g.err # "Ok" THEN Fail("cancel_mfareg", g.err)
    ELSE
      LET n == [g.session EXCEPT !.mfaregstate = [type |-> "None"]]
      IN EditOk("cancel_mfareg", tok, n, Status(n))

\* A delete that does not ask for primary_can_edit: C4 does not hold of it.
credential_primary_delete_unchecked(tok, ct) ==
    LET g == lock_session(get_current_session(tok, ct), tok) IN
    IF g.err # "Ok" THEN Fail("primary_delete", g.err)
    ELSE
      LET n == [g.session EXCEPT !.primary = None]
      IN EditOk("primary_delete", tok, n, Status(n))

\* credential_primary_delete
credential_primary_delete(tok, ct) ==
    LET g == lock_session(get_current_session(tok, ct), tok) IN
    IF g.err # "Ok" THEN Fail("primary_delete", g.err)
    ELSE IF ~g.session.primary_can_edit THEN Fail("primary_delete", "AccessDenied")
    ELSE
      LET n == [g.session EXCEPT !.primary = None]
      IN EditOk("primary_delete", tok, n, Status(n))

\* --------------------------------------------------------- specification

\* The calls, with the clock values T (and passwords P) a caller supplies.
OpenInit(T) ==
    \E ident \in IF acct_sync_parent THEN Identities ELSE LocalIdentities,
       ct \in T, url \in BOOLEAN :
        init_credential_update(ident, ct, url)
OpenIntent(T) ==
    \E ident \in IntentIdentities, ttl \in TtlRequests, ct \in T :
        init_credential_update_intent(ident, ttl, ct)
Exchange(T, U) ==
    \E i \in IntentIds, ct \in T, url \in U :
        exchange_intent_credential_update(i, ct, url)
\* An exchange of an intent token that init_credential_update_intent handed
\* out; a token that was never issued is the case of NextCollide.
ExchangeIssued(T, U) ==
    \E i \in 1..nintents, ct \in T, url \in U :
        exchange_intent_credential_update(i, ct, url)
Commit(T) == \E tok \in issued, ct \in T : commit_credential_update(tok, ct)
Cancel(T) == \E tok \in issued, ct \in T : cancel_credential_update(tok, ct)
StatusCall(T) == \E tok \in issued, ct \in T : credential_update_status(tok, ct)
SetPassword(T, P) ==
    \E tok \in issued, ct \in T, pw \in P :
        credential_primary_set_password(tok, ct, pw)
InitTotp(T) ==
    \E tok \in issued, ct \in T, secret \in Secrets :
        credential_primary_init_totp(tok, ct, secret)
CheckTotp(T) ==
    \E tok \in issued, ct \in T, chal \in Codes, label \in Labels :
        credential_primary_check_totp(tok, ct, chal, label)
AcceptSha1(T) == \E tok \in issued, ct \in T : credential_primary_accept_sha1_totp(tok, ct)
RemoveTotp(T) ==
    \E tok \in issued, ct \in T, label \in Labels :
        credential_primary_remove_totp(tok, ct, label)
InitBackupCodes(T) ==
    \E tok \in issued, ct \in T : credential_primary_init_backup_codes(tok, ct)
RemoveBackupCodes(T) ==
    \E tok \in issued, ct \in T : credential_primary_remove_backup_codes(tok, ct)
PasskeyInit(T) ==
    \E tok \in issued, ct \in T, started \in BOOLEAN :
        credential_passkey_init(tok, ct, started)
PasskeyFinish(T) ==
    \E tok \in issued, ct \in T, label \in Labels, reg_ok \in BOOLEAN, pk_id \in PkIds :
        credential_passkey_finish(tok, ct, label, reg_ok, pk_id)
PasskeyRemove(T) ==
    \E tok \in issued, ct \in T, uuid \in PkIds :
        credential_passkey_remove(tok, ct, uuid)
CancelMfaReg(T) == \E tok \in issued, ct \in T : credential_update_cancel_mfareg(tok, ct)
PrimaryDelete(T) == \E tok \in issued, ct \in T : credential_primary_delete(tok, ct)

\* The lifecycle of intent tokens and of the sessions opened from them,
\* with the password edits.
Next ==
    \/ OpenIntent(Times)
    \/ ExchangeIssued(Times, {FALSE})
    \/ Commit(Times)
    \/ Cancel(Times)
    \/ SetPassword(Times, LedgerPasswords)

\* Sessions opened directly, one at a time, with every edit operation, at the
\* clock values T.
NextEditAt(T) ==
    \/ (cred_update_sessions = EmptyMap /\ OpenInit(T))
    \/ Commit(T)
    \/ Cancel(T)
    \/ StatusCall(T)
    \/ SetPassword(T, Passwords)
    \/ InitTotp(T)
    \/ CheckTotp(T)
    \/ AcceptSha1(T)
    \/ RemoveTotp(T)
    \/ InitBackupCodes(T)
    \/ RemoveBackupCodes(T)
    \/ PasskeyInit(T)
    \/ PasskeyFinish(T)
    \/ PasskeyRemove(T)
    \/ CancelMfaReg(T)
    \/ PrimaryDelete(T)

NextEdit == NextEditAt(EditTimes)

Spec == Init /\ [][Next]_vars
SpecEdit == InitEdit /\ [][NextEdit]_vars

\* Intent tokens issued with every kind of requested TTL.
OpenIntentTtl(T) ==
    \E ident \in IntentIdentities, ttl \in IntentTtls, ct \in T :
        init_credential_update_intent(ident, ttl, ct)

NextTtl == OpenIntentTtl(Times)

SpecTtl == Init /\ [][NextTtl]_vars

\* Sessions opened directly or from an intent token, and every call on them
\* before and at their expiry.
NextExpiry ==
    \/ NextEditAt(ExpiryTimes)
    \/ Exchange(ExpiryTimes, {FALSE})

\* A new person to whom an administrator has issued one intent token, at
\* time 0 with the minimum TTL.
InitExpiry ==
    /\ acct_primary = None
    /\ acct_passkeys = EmptyMap
    /\ acct_intents = (1 :> Valid(MINIMUM_INTENT_TTL, Perms(FALSE, TRUE, TRUE)))
    /\ acct_sync_parent = FALSE
    /\ other_intents = {}
    /\ cred_update_sessions = EmptyMap
    /\ issued = {}
    /\ nintents = 1
    /\ last = Result("init_intent", "Ok", NoStatus)
    /\ created = 0
    /\ opens = MaxDirect
    /\ edits = MaxLedgerEdits
    /\ exch_hist = [i \in IntentIds |-> <<>>]
    /\ finished = {}
    /\ epoch = 0
    /\ opened = EmptyMap
    /\ granted = (1 :> [max_ttl |-> MINIMUM_INTENT_TTL, perms |-> Perms(FALSE, TRUE, TRUE)])
    /\ about = None
    /\ calls = [t \in Threads |-> None]

SpecExpiry == InitExpiry /\ [][NextExpiry]_vars

\* Several sessions opened directly, at clock values on both sides of each
\* other's expiry, with status, password edits and commit.
NextStore ==
    \/ OpenInit(StoreTimes)
    \/ StatusCall(StoreTimes)
    \/ SetPassword(StoreTimes, LedgerPasswords)
    \/ Commit(StoreTimes)

SpecStore == Init /\ [][NextStore]_vars

\* Every per-session call, presented with a token that cannot be opened.
ForgedCall(T) ==
    \E tok \in ForgedTokens, ct \in T :
        \/ credential_update_status(tok, ct)
        \/ commit_credential_update(tok, ct)
        \/ cancel_credential_update(tok, ct)
        \/ credential_update_cancel_mfareg(tok, ct)
        \/ \E pw \in Passwords : credential_primary_set_password(tok, ct, pw)
        \/ \E secret \in Secrets : credential_primary_init_totp(tok, ct, secret)
        \/ \E chal \in Codes, label \in Labels :
              credential_primary_check_totp(tok, ct, chal, label)
        \/ credential_primary_accept_sha1_totp(tok, ct)
        \/ \E label \in Labels : credential_primary_remove_totp(tok, ct, label)
        \/ credential_primary_init_backup_codes(tok, ct)
        \/ credential_primary_remove_backup_codes(tok, ct)
        \/ credential_primary_delete(tok, ct)
        \/ \E started \in BOOLEAN : credential_passkey_init(tok, ct, started)
        \/ \E label \in Labels, reg_ok \in BOOLEAN, pk_id \in PkIds :
              credential_passkey_finish(tok, ct, label, reg_ok, pk_id)
        \/ \E uuid \in PkIds : credential_passkey_remove(tok, ct, uuid)

\* One session opened directly and asked for its status, and calls with
\* forged tokens.
NextToken ==
    \/ (cred_update_sessions = EmptyMap /\ OpenInit(EditTimes))
    \/ StatusCall(EditTimes)
    \/ ForgedCall(EditTimes)

SpecToken == InitEdit /\ [][NextToken]_vars

\* Intent tokens requested by every kind of identity.
OpenIntentAny(T) ==
    \E ident \in IF acct_sync_parent THEN Identities ELSE LocalIdentities,
       ttl \in TtlRequests, ct \in T :
        init_credential_update_intent(ident, ttl, ct)

\* Sessions opened directly and from intent tokens by every kind of
\* identity, and their status.
NextOpen ==
    \/ OpenInit(OpenTimes)
    \/ OpenIntentAny(OpenTimes)
    \/ Exchange(OpenTimes, BOOLEAN)
    \/ StatusCall(OpenTimes)

\* A person with or without a password, with or without a passkey,
\* synchronised or not; one intent token and MaxDirect sessions may follow.
InitOpen ==
    InitWith(BOOLEAN, {None, Some(new_password_only("pwA"))},
             {EmptyMap, (1 :> "l1")}, MaxDirect + 1, MaxLedgerEdits)

SpecOpen == InitOpen /\ [][NextOpen]_vars

\* ------------------------------------------- calls in flight on a handle

\* Thread t starts a status or set-password call: get_current_session finds
\* the session and hands out its handle.  record: the record behind the
\* handle, which the call shares with the store and with the other calls
\* that have the handle.
LookupCall(t, T) ==
    \E tok \in issued, ct \in T, op \in {"status", "set_password"}, pw \in LedgerPasswords :
        LET g == get_current_session(tok, ct) IN
        /\ calls[t] = None
        /\ g.err = "Ok"
        /\ calls' = [calls EXCEPT ![t] =
                        Some([op |-> op, tok |-> tok, pw |-> pw, phase |-> "found",
                              record |-> g.session, seen |-> None])]
        /\ UNCHANGED <<acctVars, cred_update_sessions, issued, nintents, last, histVars,
                       about>>

\* The call of thread t tries the handle: it returns InvalidState at once
\* when another call holds it, and holds it otherwise.  seen: the record as
\* the call found it on acquiring the handle.
AcquireCall(t) ==
    /\ calls[t] # None
    /\ calls[t].v.phase = "found"
    /\ LET c == calls[t].v IN
       IF try_lock(c.tok.sessionid) # "Ok"
       THEN /\ calls' = [calls EXCEPT ![t] = None]
            /\ last' = Result(c.op, "InvalidState", NoStatus)
            /\ about' = None
            /\ UNCHANGED <<acctVars, cred_update_sessions, issued, nintents, histVars>>
       ELSE /\ calls' = [calls EXCEPT ![t] =
                           Some([c EXCEPT !.phase = "locked", !.seen = Some(c.record)])]
            /\ UNCHANGED <<acctVars, cred_update_sessions, issued, nintents, last,
                           histVars, about>>

\* A return that keeps the guard on the error paths: C34 does not hold of
\* it.
FinishCallLeak(t) ==
    /\ calls[t] # None
    /\ calls[t].v.phase = "locked"
    /\ LET c == calls[t].v
           stored == c.tok.sessionid \in DOMAIN cred_update_sessions
           r == IF c.op = "status" THEN [err |-> "Ok", session |-> c.record]
                ELSE set_password_locked(c.record, c.pw)
       IN
       /\ about' = None
       /\ IF r.err # "Ok"
          THEN /\ last' = Result(c.op, r.err, NoStatus)
               /\ calls' = calls
               /\ UNCHANGED <<cred_update_sessions, opened, edits>>
          ELSE IF c.op = "status"
          THEN /\ last' = Result(c.op, "Ok", Status(c.record))
               /\ calls' = [calls EXCEPT ![t] = None]
               /\ UNCHANGED <<cred_update_sessions, opened, edits>>
          ELSE /\ edits > 0
               /\ edits' = edits - 1
               /\ last' = Result(c.op, "Ok", Status(r.session))
               /\ calls' = [ShareRecord(c.tok.sessionid, r.session) EXCEPT ![t] = None]
               /\ IF stored
                  THEN /\ cred_update_sessions' =
                            [cred_update_sessions EXCEPT ![c.tok.sessionid] = r.session]
                       /\ opened' = [opened EXCEPT ![c.tok.sessionid].edited = TRUE]
                  ELSE UNCHANGED <<cred_update_sessions, opened>>
       /\ UNCHANGED <<acctVars, issued, nintents, created, opens, exch_hist, finished,
                      epoch, granted>>

\* The call of thread t runs to its return and drops the guard.  A commit
\* or cancel may have taken the record out of the store in the meantime;
\* the call then works on the record only the handles still refer to.
FinishCall(t) ==
    /\ calls[t] # None
    /\ calls[t].v.phase = "locked"
    /\ LET c == calls[t].v
           stored == c.tok.sessionid \in DOMAIN cred_update_sessions
           r == IF c.op = "status" THEN [err |-> "Ok", session |-> c.record]
                ELSE set_password_locked(c.record, c.pw)
       IN
       /\ about' = None
       /\ IF r.err # "Ok"
          THEN /\ last' = Result(c.op, r.err, NoStatus)
               /\ calls' = [calls EXCEPT ![t] = None]
               /\ UNCHANGED <<cred_update_sessions, opened, edits>>
          ELSE IF c.op = "status"
          THEN /\ last' = Result(c.op, "Ok", Status(c.record))
               /\ calls' = [calls EXCEPT ![t] = None]
               /\ UNCHANGED <<cred_update_sessions, opened, edits>>
          ELSE /\ edits > 0
               /\ edits' = edits - 1
               /\ last' = Result(c.op, "Ok", Status(r.session))
               /\ calls' = [ShareRecord(c.tok.sessionid, r.session) EXCEPT ![t] = None]
               /\ IF stored
                  THEN /\ cred_update_sessions' =
                            [cred_update_sessions EXCEPT ![c.tok.sessionid] = r.session]
                       /\ opened' = [opened EXCEPT ![c.tok.sessionid].edited = TRUE]
                  ELSE UNCHANGED <<cred_update_sessions, opened>>
       /\ UNCHANGED <<acctVars, issued, nintents, created, opens, exch_hist, finished,
                      epoch, granted>>

Lookup == \E t \in Threads : LookupCall(t, OpenTimes)
Acquire == \E t \in Threads : AcquireCall(t)
Finish == \E t \in Threads : FinishCall(t)

\* One session at a time, opened while no call is in flight.  Status, three
\* edits, commit and cancel as calls that run from lookup to return without
\* another thread in between; status and set-password also step by step:
\* lookup, try_lock, return.
NextLock ==
    \/ (/\ cred_update_sessions = EmptyMap
        /\ \A t \in Threads : calls[t] = None
        /\ OpenInit(OpenTimes))
    \/ Lookup
    \/ Acquire
    \/ Finish
    \/ Commit(OpenTimes)
    \/ Cancel(OpenTimes)
    \/ StatusCall(OpenTimes)
    \/ SetPassword(OpenTimes, LedgerPasswords)
    \/ PasskeyInit(OpenTimes)
    \/ PrimaryDelete(OpenTimes)

InitLock ==
    InitWith({FALSE}, {None, Some(new_password_only("pwA"))}, {EmptyMap}, MaxDirect,
             MaxLedgerEdits)

SpecLock == InitLock /\ [][NextLock]_vars

\* ------------------------------------------------------ MFA registration

\* The label and the secret of a TOTP the account already has, and the
\* identifier and label of a passkey it already has.
OldLabel == "l0"
OldSecret == 2
OldPkId == 0

\* The primary credentials the account may start with: none, a password, a
\* password with a TOTP, and the same with backup codes.
MfaPrimaries ==
    { None,
      Some(new_password_only("pwA")),
      Some(append_totp(new_password_only("pwA"), OldLabel, Totp(OldSecret, "Sha256"))),
      Some([append_totp(new_password_only("pwA"), OldLabel, Totp(OldSecret, "Sha256"))
              EXCEPT !.backup_code = TRUE]) }

\* remove TOTP, by the old label as well as by a new one.
RemoveTotpAny(T) ==
    \E tok \in issued, ct \in T, label \in Labels \cup {OldLabel} :
        credential_primary_remove_totp(tok, ct, label)

\* One session, opened directly, under status and every edit operation, and
\* its commit.
NextMfa ==
    \/ (cred_update_sessions = EmptyMap /\ OpenInit(OpenTimes))
    \/ StatusCall(OpenTimes)
    \/ SetPassword(OpenTimes, LedgerPasswords)
    \/ InitTotp(OpenTimes)
    \/ CheckTotp(OpenTimes)
    \/ AcceptSha1(OpenTimes)
    \/ RemoveTotpAny(OpenTimes)
    \/ InitBackupCodes(OpenTimes)
    \/ RemoveBackupCodes(OpenTimes)
    \/ PasskeyInit(OpenTimes)
    \/ PasskeyFinish(OpenTimes)
    \/ PasskeyRemove(OpenTimes)
    \/ CancelMfaReg(OpenTimes)
    \/ PrimaryDelete(OpenTimes)
    \/ Commit(OpenTimes)

InitMfa ==
    InitWith({FALSE}, MfaPrimaries, {EmptyMap, (OldPkId :> OldLabel)}, MaxDirect, MaxMfaEdits)

SpecMfa == InitMfa /\ [][NextMfa]_vars

\* One session, opened directly on an account with or without TOTP and
\* backup codes, under set password with acceptable and rejected passwords,
\* while an MFA registration is or is not in progress.
NextPw ==
    \/ (cred_update_sessions = EmptyMap /\ OpenInit(OpenTimes))
    \/ SetPassword(OpenTimes, Passwords)
    \/ InitTotp(OpenTimes)
    \/ PasskeyInit(OpenTimes)
    \/ PrimaryDelete(OpenTimes)
    \/ Commit(OpenTimes)

SpecPw == InitMfa /\ [][NextPw]_vars

\* ------------------------------------------- intent identifier collisions

\* init_credential_update_intent for another account: its entry receives a
\* grant under an identifier, which nothing compares with those in use.
IssueOther ==
    \E id \in IntentIds :
        /\ id \notin other_intents
        /\ other_intents' = other_intents \cup {id}
        /\ last' = Result("init_intent", "Ok", NoStatus)
        /\ about' = None
        /\ UNCHANGED <<acct_primary, acct_passkeys, acct_intents, acct_sync_parent,
                       cred_update_sessions, issued, nintents, histVars, calls>>

\* Intent tokens issued for this account and for others, their exchange,
\* and commit and cancel of the sessions opened.
NextCollide ==
    \/ OpenIntent(Times)
    \/ IssueOther
    \/ Exchange(Times, {FALSE})
    \/ Commit(Times)
    \/ Cancel(Times)

InitCollide == InitWith({FALSE}, {None}, {EmptyMap}, MaxDirect + 1, MaxLedgerEdits)

SpecCollide == InitCollide /\ [][NextCollide]_vars

\* -------------------------------------------------------------- properties

\* The state of the grant of intent i on the account.
GrantState(intents, i) == IF i \in DOMAIN intents THEN intents[i].state ELSE "Missing"

\* A session with this identifier was committed or cancelled successfully.
IsClosed(sessionid) == \E f \in finished : f.id = sessionid

\* The intents a successful commit has consumed.
CommittedIntents == {f.intent.v : f \in {g \in finished : g.by = "commit" /\ g.intent # None}}

\* The intents a successful cancel has released.
CancelledIntents == {f.intent.v : f \in {g \in finished : g.by = "cancel" /\ g.intent # None}}

\* C1: when one intent was exchanged twice (session A, then session B) and
\* neither session was committed or cancelled, a commit with A's unexpired
\* token returns InvalidState and changes no credential of the account.
C1_CommitOfSupersededSessionFails ==
    [][\A tok \in issued, ct \in Times, i \in IntentIds :
         ( /\ last'.op = "commit"
           /\ commit_credential_update(tok, ct)
           /\ ct < tok.max_ttl
           /\ \E j, k \in 1..Len(exch_hist[i]) :
                 /\ j < k
                 /\ exch_hist[i][j] = tok.sessionid
                 /\ ~IsClosed(exch_hist[i][j])
                 /\ ~IsClosed(exch_hist[i][k]) )
         => /\ last'.res = "InvalidState"
            /\ acct_primary' = acct_primary
            /\ acct_passkeys' = acct_passkeys]_vars

\* C2: a successful commit of session S leaves the account's primary
\* credential equal to S's editable primary when S.primary_can_edit and
\* unchanged otherwise, and likewise the passkeys with S.passkeys_can_edit.
C2_CommitWritesWhatMayBeEdited ==
    [][\A tok \in issued, ct \in EditTimes :
         (last'.op = "commit" /\ last'.res = "Ok" /\ commit_credential_update(tok, ct))
         => LET S == cred_update_sessions[tok.sessionid] IN
            /\ acct_primary' = IF S.primary_can_edit THEN S.primary ELSE acct_primary
            /\ acct_passkeys' = IF S.passkeys_can_edit THEN S.passkeys ELSE acct_passkeys]_vars

\* A session that may edit passkeys only, opened over an account with a
\* password, was edited and committed, and the password is still there.
C2_Witness ==
    /\ last.op = "commit" /\ last.res = "Ok"
    /\ acct_primary # None
    /\ acct_passkeys # EmptyMap
    /\ about # None
    /\ about.v.by = "commit" /\ about.v.ok /\ about.v.edited
    /\ ~about.v.perms.primary_can_edit /\ about.v.perms.passkeys_can_edit

\* C3: a cancel of session S, whatever edits S received, changes neither the
\* primary credential nor the passkeys of the account, and when no session
\* was committed since S was opened they equal the values S was opened over.
C3_CancelKeepsCredentials ==
    [][\A tok \in issued, ct \in EditTimes :
         (last'.op = "cancel" /\ cancel_credential_update(tok, ct))
         => /\ acct_primary' = acct_primary
            /\ acct_passkeys' = acct_passkeys
            /\ (last'.res = "Ok" /\ opened[tok.sessionid].epoch = epoch)
               => LET S == cred_update_sessions[tok.sessionid] IN
                  /\ acct_primary' = S.account.primary
                  /\ acct_passkeys' = S.account.passkeys]_vars

\* A session that may edit the primary credential was edited and cancelled
\* over an account that has a password.
C3_Witness ==
    /\ last.op = "cancel" /\ last.res = "Ok"
    /\ acct_primary # None
    /\ about # None
    /\ about.v.by = "cancel" /\ about.v.ok /\ about.v.edited
    /\ about.v.perms.primary_can_edit

\* The names under which the edit operations report their result.
EditOps == {"set_password", "init_totp", "check_totp", "accept_sha1_totp", "remove_totp",
            "init_backup_codes", "remove_backup_codes", "primary_delete",
            "passkey_init", "passkey_finish", "passkey_remove"}

\* The call was refused for want of permission and the record is untouched.
Denied == last'.res = "AccessDenied" /\ cred_update_sessions' = cred_update_sessions

\* C4: every edit operation that needs primary_can_edit (set password, init /
\* check / accept-SHA1 / remove TOTP, init / remove backup codes, delete
\* primary) or passkeys_can_edit (init / finish / remove passkey), on a
\* session that lacks it, returns AccessDenied and leaves the session's
\* editable primary, editable passkeys and MFA sub-state unchanged.
C4_MissingPermissionDenied ==
    [][\A tok \in issued, ct \in EditTimes :
         ( /\ last'.op \in EditOps
           /\ ct < tok.max_ttl
           /\ tok.sessionid \in DOMAIN cred_update_sessions )
         => LET S == cred_update_sessions[tok.sessionid] IN
            /\ ~S.primary_can_edit =>
                 /\ last'.op = "set_password" =>
                       \A pw \in Passwords :
                          credential_primary_set_password(tok, ct, pw) => Denied
                 /\ last'.op = "init_totp" =>
                       \A secret \in Secrets :
                          credential_primary_init_totp(tok, ct, secret) => Denied
                 /\ last'.op = "check_totp" =>
                       \A chal \in Codes, label \in Labels :
                          credential_primary_check_totp(tok, ct, chal, label) => Denied
                 /\ last'.op = "accept_sha1_totp" =>
                       (credential_primary_accept_sha1_totp(tok, ct) => Denied)
                 /\ last'.op = "remove_totp" =>
                       \A label \in Labels :
                          credential_primary_remove_totp(tok, ct, label) => Denied
                 /\ last'.op = "init_backup_codes" =>
                       (credential_primary_init_backup_codes(tok, ct) => Denied)
                 /\ last'.op = "remove_backup_codes" =>
                       (credential_primary_remove_backup_codes(tok, ct) => Denied)
                 /\ last'.op = "primary_delete" =>
                       (credential_primary_delete(tok, ct) => Denied)
            /\ ~S.passkeys_can_edit =>
                 /\ last'.op = "passkey_init" =>
                       \A started \in BOOLEAN :
                          credential_passkey_init(tok, ct, started) => Denied
                 /\ last'.op = "passkey_finish" =>
                       \A label \in Labels, reg_ok \in BOOLEAN, pk_id \in PkIds :
                          credential_passkey_finish(tok, ct, label, reg_ok, pk_id) => Denied
                 /\ last'.op = "passkey_remove" =>
                       \A uuid \in PkIds :
                          credential_passkey_remove(tok, ct, uuid) => Denied]_vars

\* Delete-primary was refused on a stored session that may edit passkeys only.
C4_Witness ==
    /\ last.op = "primary_delete" /\ last.res = "AccessDenied"
    /\ \E id \in DOMAIN cred_update_sessions :
          /\ ~cred_update_sessions[id].primary_can_edit
          /\ cred_update_sessions[id].passkeys_can_edit

\* C5: the (primary_can_edit, passkeys_can_edit) pair and the external-portal
\* descriptor a status call reports for session S are the values fixed when
\* S was opened, whatever status and edit operations S received since.
C5_StatusReportsPermsOfOpen ==
    [][\A tok \in issued, ct \in EditTimes :
         (last'.op = "status" /\ last'.res = "Ok" /\ credential_update_status(tok, ct))
         => /\ last'.status.primary_can_edit = opened[tok.sessionid].perms.primary_can_edit
            /\ last'.status.passkeys_can_edit = opened[tok.sessionid].perms.passkeys_can_edit
            /\ last'.status.ext_cred_portal = opened[tok.sessionid].ext_cred_portal]_vars

\* Status was read from an edited session that may edit the primary only.
C5_Witness ==
    /\ last.op = "status" /\ last.res = "Ok"
    /\ last.status.primary_can_edit /\ ~last.status.passkeys_can_edit
    /\ last.status.ext_cred_portal = "Hidden"
    /\ \E id \in DOMAIN opened : opened[id].edited

\* What the claim on the grant transitions says of one step, with or without
\* its bound on exchanges: an exchange of a Valid grant is the grant's first
\* (bounded) or follows a cancel; a grant is consumed once; a Consumed grant
\* stays as it is until init_intent removes it.
GrantStep(i, bounded) ==
    LET pre == GrantState(acct_intents, i)
        post == GrantState(acct_intents', i)
    IN
    /\ (pre = "Valid" /\ post = "InProgress")
          => IF bounded THEN exch_hist[i] = <<>>
             ELSE exch_hist[i] # <<>> => i \in CancelledIntents
    /\ (pre = "InProgress" /\ post = "Consumed") => i \notin CommittedIntents
    /\ pre = "Consumed" => post \in {"Consumed", "Missing"}
    /\ (pre = "Consumed" /\ post = "Consumed") => acct_intents'[i] = acct_intents[i]
    /\ (pre = "Consumed" /\ post = "Missing") => last'.op = "init_intent"
    /\ pre = "Missing" => (post = "Missing" \/ (post = "Valid" /\ i \notin DOMAIN granted))

\* C6 as stated: every grant makes at most one Valid->InProgress and at most
\* one InProgress->Consumed transition, and a Consumed grant never changes
\* until expiry garbage collection removes it.
C6_AtMostOneExchange == [][\A i \in IntentIds : GrantStep(i, TRUE)]_vars

\* C6: every grant makes at most one InProgress->Consumed transition, and a
\* Consumed grant never changes until the garbage collection of init_intent
\* removes it; a grant goes Valid->InProgress again only after a cancel
\* returned it to Valid.
C6_GrantLifecycle == [][\A i \in IntentIds : GrantStep(i, FALSE)]_vars

\* A grant was exchanged, released by cancel, exchanged again and consumed.
C6_Witness ==
    \E i \in IntentIds :
        /\ GrantState(acct_intents, i) = "Consumed"
        /\ Len(exch_hist[i]) = 2
        /\ i \in CancelledIntents
        /\ i \in CommittedIntents

\* C7: an exchange on a Valid grant with now >= the grant's expiry (the
\* instant of expiry included) returns SessionExpired, creates no session and
\* leaves the grant unchanged; with now < expiry it proceeds.
C7_ExpiredValidGrantRejected ==
    [][\A i \in IntentIds, ct \in Times, url \in BOOLEAN :
         ( /\ last'.op = "exchange"
           /\ GrantState(acct_intents, i) = "Valid"
           /\ exchange_intent_credential_update(i, ct, url) )
         => IF ct >= acct_intents[i].max_ttl
            THEN /\ last'.res = "SessionExpired"
                 /\ UNCHANGED <<cred_update_sessions, issued, acct_intents>>
            ELSE /\ last'.res = "Ok"
                 /\ acct_intents'[i].state = "InProgress"
                 /\ acct_intents'[i].session_id \in DOMAIN cred_update_sessions']_vars

\* The exchange of the only grant, still Valid, was refused as expired, and
\* no session was ever created.
C7_Witness ==
    /\ last.op = "exchange" /\ last.res = "SessionExpired"
    /\ about = Some([by |-> "exchange", intent |-> 1])
    /\ created = 0
    /\ GrantState(acct_intents, 1) = "Valid"

\* C8 as stated: once a session opened from an intent was committed, every
\* later exchange of that intent returns SessionExpired and opens no session.
C8_ExchangeAfterCommitExpired ==
    [][\A i \in IntentIds, ct \in Times, url \in BOOLEAN :
         ( /\ last'.op = "exchange"
           /\ i \in CommittedIntents
           /\ exchange_intent_credential_update(i, ct, url) )
         => /\ last'.res = "SessionExpired"
            /\ UNCHANGED <<cred_update_sessions, issued>>]_vars

\* C8: once a session opened from an intent was committed, no later exchange
\* of that intent opens a session: it returns SessionExpired while the
\* Consumed grant is on the account, and Wait once init_intent removed it.
C8_ExchangeAfterCommitOpensNothing ==
    [][\A i \in IntentIds, ct \in Times, url \in BOOLEAN :
         ( /\ last'.op = "exchange"
           /\ i \in CommittedIntents
           /\ exchange_intent_credential_update(i, ct, url) )
         => /\ last'.res = IF i \in DOMAIN acct_intents THEN "SessionExpired" ELSE "Wait"
            /\ UNCHANGED <<cred_update_sessions, issued, acctVars>>]_vars

\* The first intent was committed and later removed by the init_intent of
\* the second; its exchange was answered Wait.
C8_Witness ==
    /\ last.op = "exchange" /\ last.res = "Wait"
    /\ about = Some([by |-> "exchange", intent |-> 1])
    /\ 1 \in CommittedIntents
    /\ DOMAIN acct_intents = {2}

\* C9: a commit of a session that carries an intent succeeds only if the
\* grant is InProgress with the session id of the committing session; on a
\* Valid, Consumed or missing grant, or one InProgress for another session,
\* it returns InvalidState and modifies neither the grant nor a credential.
\* On success the grant becomes Consumed with the expiry it was issued with,
\* in the modification that writes the credentials.
C9_CommitNeedsOwnGrant ==
    [][\A tok \in issued, ct \in Times :
         ( /\ last'.op = "commit"
           /\ ct < tok.max_ttl
           /\ tok.sessionid \in DOMAIN cred_update_sessions
           /\ cred_update_sessions[tok.sessionid].intent_token_id # None
           /\ commit_credential_update(tok, ct) )
         => LET S == cred_update_sessions[tok.sessionid]
                i == S.intent_token_id.v
                own == /\ GrantState(acct_intents, i) = "InProgress"
                       /\ acct_intents[i].session_id = tok.sessionid
            IN
            /\ last'.res = "Ok" => own
            /\ ~own => (last'.res = "InvalidState" /\ UNCHANGED acctVars)
            /\ last'.res = "Ok" =>
                 /\ acct_intents'[i] = Consumed(granted[i].max_ttl)
                 /\ acct_primary' = IF S.primary_can_edit THEN S.primary ELSE acct_primary
                 /\ acct_passkeys' = IF S.passkeys_can_edit THEN S.passkeys
                                     ELSE acct_passkeys]_vars

\* The first session of a grant, superseded by a second one that is still
\* stored, was refused at commit.
C9_Witness ==
    /\ last.op = "commit" /\ last.res = "InvalidState"
    /\ about # None
    /\ about.v.by = "commit" /\ ~about.v.ok
    /\ \E i \in IntentIds :
          /\ GrantState(acct_intents, i) = "InProgress"
          /\ Len(exch_hist[i]) = 2
          /\ exch_hist[i][1] # exch_hist[i][2]
          /\ acct_intents[i].session_id = exch_hist[i][2]
          /\ exch_hist[i][1] \notin DOMAIN cred_update_sessions
          /\ exch_hist[i][2] \in DOMAIN cred_update_sessions

\* C10: the cancel of a session opened by exchanging a Valid grant returns
\* the grant to Valid with the expiry and permissions it had before the
\* exchange, and a further exchange before that expiry succeeds.
C10_CancelRestoresGrant ==
    [][/\ \A i \in DOMAIN acct_intents :
            /\ acct_intents[i].max_ttl = granted[i].max_ttl
            /\ acct_intents[i].state # "Consumed" => acct_intents[i].perms = granted[i].perms
       /\ \A tok \in issued, ct \in Times :
            ( /\ last'.op = "cancel" /\ last'.res = "Ok"
              /\ cancel_credential_update(tok, ct)
              /\ cred_update_sessions[tok.sessionid].intent_token_id # None )
            => LET i == cred_update_sessions[tok.sessionid].intent_token_id.v IN
               acct_intents'[i] = Valid(granted[i].max_ttl, granted[i].perms)
       /\ \A i \in CancelledIntents, ct \in Times, url \in BOOLEAN :
            ( /\ last'.op = "exchange"
              /\ GrantState(acct_intents, i) = "Valid"
              /\ ct < granted[i].max_ttl
              /\ exchange_intent_credential_update(i, ct, url) )
            => /\ last'.res = "Ok"
               /\ acct_intents'[i].state = "InProgress"]_vars

\* The only grant was exchanged, released by cancel and exchanged again.
C10_Witness ==
    /\ last.op = "exchange" /\ last.res = "Ok"
    /\ about = Some([by |-> "exchange", intent |-> 1])
    /\ 1 \in CancelledIntents
    /\ Len(exch_hist[1]) = 2
    /\ GrantState(acct_intents, 1) = "InProgress"

\* C11: the grant init_intent writes at time ct expires between 300 s and
\* 86400 s after ct: after the requested TTL when that lies in the range,
\* after 300 s when it is below, after 86400 s when it is above, and after
\* 3600 s when no TTL is requested.
C11_IntentTtlClamped ==
    [][\A ident \in IntentIdentities, ttl \in IntentTtls, ct \in Times :
         ( /\ last'.op = "init_intent" /\ last'.res = "Ok"
           /\ init_credential_update_intent(ident, ttl, ct) )
         => LET g == acct_intents'[nintents'] IN
            /\ g.state = "Valid"
            /\ g.max_ttl - ct >= 300
            /\ g.max_ttl - ct <= 86400
            /\ g.max_ttl - ct = IF ttl = NoTtl THEN 3600
                                ELSE IF ttl < 300 THEN 300
                                ELSE IF ttl > 86400 THEN 86400
                                ELSE ttl]_vars

\* Three grants issued at time 0: one requested below the minimum, one
\* without a TTL, one requested at or above the maximum.
C11_Witness ==
    /\ last.op = "init_intent" /\ last.res = "Ok"
    /\ {acct_intents[i].max_ttl : i \in DOMAIN acct_intents} = {300, 3600, 86400}
    /\ \A i \in DOMAIN acct_intents : acct_intents[i].state = "Valid"
\* C12: a session created at time ct, directly or by an exchange, gets a
\* token that expires at ct + 900 s; every status, edit, commit or cancel
\* call with a token at or after its expiry (Late) returns SessionExpired and
\* leaves the session store (so every record in it) and the account
\* unchanged.
C12_ExpiredTokenRejected ==
    [][LET Expired == /\ last'.res = "SessionExpired"
                      /\ cred_update_sessions' = cred_update_sessions
                      /\ acct_primary' = acct_primary
                      /\ acct_passkeys' = acct_passkeys
                      /\ acct_intents' = acct_intents
           TokenOf(ct) == \E tok \in issued' :
                             /\ tok.max_ttl = ct + 900
                             /\ tok.sessionid \in DOMAIN cred_update_sessions'
                             /\ issued' = issued \cup {tok}
           Late == {<<tok, ct>> \in issued \X ExpiryTimes : ct >= tok.max_ttl}
       IN
       /\ (last'.op = "init" /\ last'.res = "Ok") =>
             \A ident \in LocalIdentities, ct \in ExpiryTimes, url \in BOOLEAN :
                init_credential_update(ident, ct, url) => TokenOf(ct)
       /\ (last'.op = "exchange" /\ last'.res = "Ok") =>
             \A i \in IntentIds, ct \in ExpiryTimes :
                exchange_intent_credential_update(i, ct, FALSE) => TokenOf(ct)
       /\ last'.op = "status" =>
             \A c \in Late : credential_update_status(c[1], c[2]) => Expired
       /\ last'.op = "commit" =>
             \A c \in Late : commit_credential_update(c[1], c[2]) => Expired
       /\ last'.op = "cancel" =>
             \A c \in Late : cancel_credential_update(c[1], c[2]) => Expired
       /\ last'.op = "cancel_mfareg" =>
             \A c \in Late : credential_update_cancel_mfareg(c[1], c[2]) => Expired
       /\ last'.op = "set_password" =>
             \A c \in Late, pw \in Passwords :
                credential_primary_set_password(c[1], c[2], pw) => Expired
       /\ last'.op = "init_totp" =>
             \A c \in Late, secret \in Secrets :
                credential_primary_init_totp(c[1], c[2], secret) => Expired
       /\ last'.op = "check_totp" =>
             \A c \in Late, chal \in Codes, label \in Labels :
                credential_primary_check_totp(c[1], c[2], chal, label) => Expired
       /\ last'.op = "accept_sha1_totp" =>
             \A c \in Late : credential_primary_accept_sha1_totp(c[1], c[2]) => Expired
       /\ last'.op = "remove_totp" =>
             \A c \in Late, label \in Labels :
                credential_primary_remove_totp(c[1], c[2], label) => Expired
       /\ last'.op = "init_backup_codes" =>
             \A c \in Late : credential_primary_init_backup_codes(c[1], c[2]) => Expired
       /\ last'.op = "remove_backup_codes" =>
             \A c \in Late : credential_primary_remove_backup_codes(c[1], c[2]) => Expired
       /\ last'.op = "primary_delete" =>
             \A c \in Late : credential_primary_delete(c[1], c[2]) => Expired
       /\ last'.op = "passkey_init" =>
             \A c \in Late, started \in BOOLEAN :
                credential_passkey_init(c[1], c[2], started) => Expired
       /\ last'.op = "passkey_finish" =>
             \A c \in Late, label \in Labels, reg_ok \in BOOLEAN, pk_id \in PkIds :
                credential_passkey_finish(c[1], c[2], label, reg_ok, pk_id) => Expired
       /\ last'.op = "passkey_remove" =>
             \A c \in Late, uuid \in PkIds :
                credential_passkey_remove(c[1], c[2], uuid) => Expired]_vars

\* A session opened from the intent token and edited is still in the store,
\* its grant in progress, after a commit with its token at or past the
\* token's expiry was rejected.
C12_Witness ==
    /\ last = Result("commit", "SessionExpired", NoStatus)
    /\ GrantState(acct_intents, 1) = "InProgress"
    /\ \E id \in DOMAIN cred_update_sessions :
          /\ cred_update_sessions[id].intent_token_id = Some(1)
          /\ opened[id].edited
\* C13: creating a session at time ct removes from the store exactly the
\* sessions whose token expired before ct and keeps every other session,
\* record and all; and a status call with the token of a session that is no
\* longer stored returns InvalidState when called before the token's expiry.
C13_PruneExactlyExpired ==
    [][/\ (last'.op = "init" /\ last'.res = "Ok") =>
             \A ident \in LocalIdentities, ct \in StoreTimes, url \in BOOLEAN :
                init_credential_update(ident, ct, url) =>
                   \A id \in DOMAIN cred_update_sessions :
                      IF \E tok \in issued : tok.sessionid = id /\ tok.max_ttl < ct
                      THEN id \notin DOMAIN cred_update_sessions'
                      ELSE /\ id \in DOMAIN cred_update_sessions'
                           /\ cred_update_sessions'[id] = cred_update_sessions[id]
       /\ last'.op = "status" =>
             \A tok \in issued, ct \in StoreTimes :
                ( /\ ct < tok.max_ttl
                  /\ tok.sessionid \notin DOMAIN cred_update_sessions
                  /\ credential_update_status(tok, ct) )
                => last'.res = "InvalidState"]_vars
\* C17: a commit of a stored session whose editable primary and editable
\* passkeys are what they were when the session was opened returns Ok and
\* leaves the account's credentials as they are.
C17_UneditedCommitWritesNothing ==
    [][last'.op = "commit" =>
         \A tok \in issued, ct \in StoreTimes :
            ( /\ ct < tok.max_ttl
              /\ tok.sessionid \in DOMAIN cred_update_sessions
              /\ LET S == cred_update_sessions[tok.sessionid] IN
                 /\ S.primary = IF S.primary_can_edit THEN S.account.primary ELSE None
                 /\ S.passkeys = IF S.passkeys_can_edit THEN S.account.passkeys ELSE EmptyMap
              /\ commit_credential_update(tok, ct) )
            => /\ last'.res = "Ok"
               /\ acct_primary' = acct_primary
               /\ acct_passkeys' = acct_passkeys]_vars
\* C14: every per-session call presented with a token that cannot be opened,
\* at decryption or at decoding, returns SessionExpired.
C14_UnopenableTokenIsExpired ==
    [][\A tok \in ForgedTokens, ct \in EditTimes :
         /\ credential_update_status(tok, ct) => last'.res = "SessionExpired"
         /\ commit_credential_update(tok, ct) => last'.res = "SessionExpired"
         /\ cancel_credential_update(tok, ct) => last'.res = "SessionExpired"
         /\ credential_update_cancel_mfareg(tok, ct) => last'.res = "SessionExpired"
         /\ \A pw \in Passwords :
               credential_primary_set_password(tok, ct, pw) => last'.res = "SessionExpired"
         /\ \A secret \in Secrets :
               credential_primary_init_totp(tok, ct, secret) => last'.res = "SessionExpired"
         /\ \A chal \in Codes, label \in Labels :
               credential_primary_check_totp(tok, ct, chal, label)
                  => last'.res = "SessionExpired"
         /\ credential_primary_accept_sha1_totp(tok, ct) => last'.res = "SessionExpired"
         /\ \A label \in Labels :
               credential_primary_remove_totp(tok, ct, label) => last'.res = "SessionExpired"
         /\ credential_primary_init_backup_codes(tok, ct) => last'.res = "SessionExpired"
         /\ credential_primary_remove_backup_codes(tok, ct) => last'.res = "SessionExpired"
         /\ credential_primary_delete(tok, ct) => last'.res = "SessionExpired"
         /\ \A started \in BOOLEAN :
               credential_passkey_init(tok, ct, started) => last'.res = "SessionExpired"
         /\ \A label \in Labels, reg_ok \in BOOLEAN, pk_id \in PkIds :
               credential_passkey_finish(tok, ct, label, reg_ok, pk_id)
                  => last'.res = "SessionExpired"
         /\ \A uuid \in PkIds :
               credential_passkey_remove(tok, ct, uuid) => last'.res = "SessionExpired"]_vars
\* C18: init and init_intent return AccessDenied to an identity whose access
\* scope is not read-write, and NotAuthorised to a read-write identity that
\* is granted none of primary edit, passkeys edit and portal view; both
\* leave the session store, the issued tokens and the account's grants as
\* they are.
C18_OpenRefused ==
    [][LET MayEdit(ident, attr) == /\ attr \in ident.search
                                   /\ attr \in ident.modify_pres
                                   /\ attr \in ident.modify_rem
           NoneGranted(ident) == /\ ~MayEdit(ident, "PrimaryCredential")
                                 /\ ~MayEdit(ident, "PassKeys")
                                 /\ ~(acct_sync_parent /\ ident.portal)
           Refused(err) == /\ last'.res = err
                           /\ cred_update_sessions' = cred_update_sessions
                           /\ issued' = issued
                           /\ acct_intents' = acct_intents
           Checked(ident) ==
              /\ ident.scope # "ReadWrite" => Refused("AccessDenied")
              /\ (ident.scope = "ReadWrite" /\ NoneGranted(ident)) => Refused("NotAuthorised")
       IN
       /\ last'.op = "init" =>
             \A ident \in Identities, ct \in OpenTimes, url \in BOOLEAN :
                init_credential_update(ident, ct, url) => Checked(ident)
       /\ last'.op = "init_intent" =>
             \A ident \in Identities, ttl \in TtlRequests, ct \in OpenTimes :
                init_credential_update_intent(ident, ttl, ct) => Checked(ident)]_vars

\* With one session stored, a request for an intent token was refused as
\* NotAuthorised and the account holds no grant.
C18_Witness ==
    /\ last = Result("init_intent", "NotAuthorised", NoStatus)
    /\ DOMAIN cred_update_sessions # {}
    /\ acct_intents = EmptyMap

\* C19: the record a session is opened with, and the status returned for it,
\* hold the account's primary credential if primary_can_edit and None
\* otherwise, the account's passkeys if passkeys_can_edit and none otherwise,
\* and the MFA sub-state None.
C19_OpenSnapshot ==
    [][((last'.op = "init" \/ last'.op = "exchange") /\ last'.res = "Ok") =>
         LET AsOpened(S, mfa) ==
                /\ S.primary = IF S.primary_can_edit THEN acct_primary ELSE None
                /\ S.passkeys = IF S.passkeys_can_edit THEN acct_passkeys ELSE EmptyMap
                /\ mfa = "None"
         IN
         /\ AsOpened(last'.status, last'.status.mfaregstate)
         /\ \A id \in DOMAIN cred_update_sessions' :
               ( \/ id \notin DOMAIN cred_update_sessions
                 \/ cred_update_sessions'[id] # cred_update_sessions[id] )
               => AsOpened(cred_update_sessions'[id],
                           cred_update_sessions'[id].mfaregstate.type)]_vars

\* A session that may edit the primary credential only was opened on an
\* account with a password and a passkey: it holds the password and no
\* passkey.
C19_Witness ==
    /\ last.op = "init" /\ last.res = "Ok"
    /\ acct_primary # None /\ acct_passkeys # EmptyMap
    /\ last.status.primary_can_edit /\ ~last.status.passkeys_can_edit
    /\ \E id \in DOMAIN cred_update_sessions :
          /\ cred_update_sessions[id].primary = acct_primary
          /\ cred_update_sessions[id].passkeys = EmptyMap
          /\ cred_update_sessions[id].primary_can_edit
          /\ ~cred_update_sessions[id].passkeys_can_edit
          /\ cred_update_sessions[id].mfaregstate.type = "None"

\* C20 as stated: the portal descriptor of a session just opened is None
\* exactly when the account has no sync parent; with a sync parent it is
\* Some(url) if portal view is permitted and Hidden if it is denied.
C20_PortalByPermission ==
    [][LET Portal(can_view) == IF ~acct_sync_parent THEN "None"
                               ELSE IF can_view THEN "Some" ELSE "Hidden"
       IN
       /\ (last'.op = "init" /\ last'.res = "Ok") =>
             \A ident \in Identities, ct \in OpenTimes, url \in BOOLEAN :
                init_credential_update(ident, ct, url)
                   => last'.status.ext_cred_portal = Portal(ident.portal)
       /\ (last'.op = "exchange" /\ last'.res = "Ok") =>
             \A i \in DOMAIN granted, ct \in OpenTimes, url \in BOOLEAN :
                exchange_intent_credential_update(i, ct, url)
                   => last'.status.ext_cred_portal =
                         Portal(granted[i].perms.ext_cred_portal_can_view)]_vars

\* C20: the portal descriptor of a session just opened is None exactly when
\* the account has no sync parent; with a sync parent it is Some(url) if
\* portal view is permitted and the sync parent entry carries a portal url,
\* and Hidden if view is denied or the entry carries no url.
C20_PortalByPermissionAndUrl ==
    [][LET Portal(can_view, url) == IF ~acct_sync_parent THEN "None"
                                    ELSE IF can_view /\ url THEN "Some" ELSE "Hidden"
       IN
       /\ (last'.op = "init" /\ last'.res = "Ok") =>
             \A ident \in Identities, ct \in OpenTimes, url \in BOOLEAN :
                init_credential_update(ident, ct, url)
                   => last'.status.ext_cred_portal = Portal(ident.portal, url)
       /\ (last'.op = "exchange" /\ last'.res = "Ok") =>
             \A i \in DOMAIN granted, ct \in OpenTimes, url \in BOOLEAN :
                exchange_intent_credential_update(i, ct, url)
                   => last'.status.ext_cred_portal =
                         Portal(granted[i].perms.ext_cred_portal_can_view, url)]_vars

\* A session of a synchronised account, opened from an intent token whose
\* grant permits portal view, reports the portal url.
C20_Witness ==
    /\ acct_sync_parent
    /\ last.op = "exchange" /\ last.res = "Ok"
    /\ about = Some([by |-> "exchange", intent |-> 1])
    /\ granted[1].perms.ext_cred_portal_can_view
    /\ last.status.ext_cred_portal = "Some"


\* Thread t has acquired the handle of a session and not returned yet.
Locked(t) == calls[t] # None /\ calls[t].v.phase = "locked"

\* The per-session calls of the contention specification, made with this
\* token in one step.
CallOn(tok, ct) ==
    \/ credential_update_status(tok, ct)
    \/ \E pw \in LedgerPasswords : credential_primary_set_password(tok, ct, pw)
    \/ \E started \in BOOLEAN : credential_passkey_init(tok, ct, started)
    \/ credential_primary_delete(tok, ct)
    \/ commit_credential_update(tok, ct)
    \/ cancel_credential_update(tok, ct)

\* C15: a status, edit, commit or cancel call that reaches a session whose
\* handle another call holds returns InvalidState at once and leaves the
\* session record as it was (a status or edit call leaves the store as it
\* was too; commit and cancel have taken the record out of the store before
\* they try the handle); and a call that has found a session is never kept
\* waiting for the handle: its try_lock step can always be taken.
C15_ContentionIsInvalidState ==
    [][ /\ \A tok \in issued, ct \in OpenTimes :
            (/\ Holders(tok.sessionid) # {}
             /\ get_current_session(tok, ct).err = "Ok"
             /\ CallOn(tok, ct))
            => /\ last'.res = "InvalidState"
               /\ calls' = calls
               /\ acct_primary' = acct_primary
               /\ acct_passkeys' = acct_passkeys
               /\ acct_intents' = acct_intents
               /\ last'.op \notin {"commit", "cancel"}
                    => cred_update_sessions' = cred_update_sessions
               /\ tok.sessionid \in DOMAIN cred_update_sessions'
                    => cred_update_sessions' = cred_update_sessions
        /\ \A t \in Threads :
            (/\ calls[t] # None
             /\ calls[t].v.phase = "found"
             /\ Holders(calls[t].v.tok.sessionid) # {}
             /\ AcquireCall(t))
            => /\ last' = Result(calls[t].v.op, "InvalidState", NoStatus)
               /\ calls' = [calls EXCEPT ![t] = None]
               /\ cred_update_sessions' = cred_update_sessions
        /\ \A t \in Threads :
            (calls[t] # None /\ calls[t].v.phase = "found") => ENABLED AcquireCall(t)
      ]_vars

\* A commit came upon a held handle: the session was direct and fit to
\* commit, a call still holds its handle, and the commit returned
\* InvalidState.
C15_Witness ==
    /\ last = Result("commit", "InvalidState", NoStatus)
    /\ about # None
    /\ about.v.by = "commit"
    /\ ~about.v.ok
    /\ \E t \in Threads :
        /\ Locked(t)
        /\ calls[t].v.tok.sessionid \notin DOMAIN cred_update_sessions
        /\ calls[t].v.record.intent_token_id = None
        /\ can_commit(calls[t].v.record)

TotpLabels(primary) == IF primary = None THEN {} ELSE DOMAIN primary.v.totp

\* An optional credential carries backup codes.
HasBackupCodes(primary) == primary # None /\ primary.v.backup_code

\* C21: in every session record the editable primary credential carries
\* backup codes only if it carries at least one TOTP; a remove TOTP that
\* removes the only TOTP leaves a password-only primary without backup
\* codes; and remove backup codes leaves the TOTPs in place.
C21_BackupCodesNeedTotp ==
    [][ /\ \A id \in DOMAIN cred_update_sessions' :
            HasBackupCodes(cred_update_sessions'[id].primary)
            => TotpLabels(cred_update_sessions'[id].primary) # {}
        /\ last'.op = "remove_totp" =>
            \A tok \in issued, label \in Labels \cup {OldLabel} :
              (/\ credential_primary_remove_totp(tok, 0, label)
               /\ last'.res = "Ok"
               /\ TotpLabels(cred_update_sessions[tok.sessionid].primary) \subseteq {label})
              => cred_update_sessions'[tok.sessionid].primary =
                   Some(new_password_only(cred_update_sessions[tok.sessionid].primary.v.pw))
        /\ last'.op = "remove_backup_codes" =>
            \A tok \in issued :
              (credential_primary_remove_backup_codes(tok, 0) /\ last'.res = "Ok")
              => /\ TotpLabels(cred_update_sessions'[tok.sessionid].primary)
                      = TotpLabels(cred_update_sessions[tok.sessionid].primary)
                 /\ TotpLabels(cred_update_sessions'[tok.sessionid].primary) # {}
                 /\ ~HasBackupCodes(cred_update_sessions'[tok.sessionid].primary)
      ]_vars

\* remove TOTP has taken the only TOTP off a primary that came from an
\* account with a TOTP and backup codes: the session's primary is
\* password-only.
C21_Witness ==
    /\ last.op = "remove_totp"
    /\ last.res = "Ok"
    /\ HasBackupCodes(acct_primary)
    /\ \E id \in DOMAIN cred_update_sessions :
        /\ cred_update_sessions[id].primary = Some(new_password_only("pwA"))
        /\ last.status = Status(cred_update_sessions[id])

C23_ExchangeUnknownOrCollidingIntent ==
    [][ last'.op = "exchange" =>
          \A i \in IntentIds, ct \in Times :
            exchange_intent_credential_update(i, ct, FALSE)
            => /\ (i \notin DOMAIN acct_intents /\ i \notin other_intents)
                    => /\ last' = Result("exchange", "Wait", WaitUntil(ct + 150))
                       /\ UNCHANGED <<acctVars, cred_update_sessions, issued>>
               /\ (i \in DOMAIN acct_intents /\ i \in other_intents)
                    => /\ last' = Result("exchange", "InvalidState", NoStatus)
                       /\ UNCHANGED <<acctVars, cred_update_sessions, issued>>
      ]_vars

\* The exchange of a Valid, unexpired grant of this account was refused with
\* InvalidState because another account holds the same identifier.
C23_Witness ==
    /\ last = Result("exchange", "InvalidState", NoStatus)
    /\ about # None
    /\ about.v.by = "exchange"
    /\ about.v.intent \in other_intents
    /\ about.v.intent \in DOMAIN acct_intents
    /\ acct_intents[about.v.intent].state = "Valid"
    /\ cred_update_sessions = EmptyMap

\* C24: after a commit or cancel of a session has returned success, every
\* later status, edit, commit or cancel call with that session's token,
\* made before the token's expiry, returns InvalidState.
C24_ClosedSessionTokenIsDead ==
    [][ \A tok \in issued, ct \in StoreTimes :
          (/\ IsClosed(tok.sessionid)
           /\ ct < tok.max_ttl
           /\ CallOn(tok, ct))
          => last'.res = "InvalidState"
      ]_vars

\* The sub-states in which a TOTP secret awaits verification.
TotpStates == {"TotpInit", "TotpTryAgain", "TotpInvalidSha1"}

\* C25: check TOTP from sub-state TotpInit, TotpTryAgain or TotpInvalidSha1
\* verifies the code against the secret init TOTP generated.  A code valid
\* for the secret, on a session that has a primary credential, attaches
\* the TOTP under the given label, keeps the other TOTPs and sets the
\* sub-state to None; a code valid only for the SHA-1 downgrade of the
\* secret sets the sub-state to TotpInvalidSha1 and attaches nothing; any
\* other code sets the sub-state to TotpTryAgain and attaches nothing.  The
\* secret under verification is the same after every retry.
C25_CheckTotp ==
    [][ last'.op = "check_totp" =>
          \A tok \in issued, chal \in Codes, label \in Labels :
            (/\ tok.sessionid \in DOMAIN cred_update_sessions
             /\ cred_update_sessions[tok.sessionid].mfaregstate.type \in TotpStates
             /\ credential_primary_check_totp(tok, 0, chal, label))
            => LET s == cred_update_sessions[tok.sessionid]
                   n == cred_update_sessions'[tok.sessionid]
                   secret == s.mfaregstate.totp
               IN
               IF chal = secret THEN
                  s.primary # None =>
                    /\ last'.res = "Ok"
                    /\ n.mfaregstate.type = "None"
                    /\ n.primary # None
                    /\ n.primary.v.pw = s.primary.v.pw
                    /\ DOMAIN n.primary.v.totp = DOMAIN s.primary.v.totp \cup {label}
                    /\ n.primary.v.totp[label] = secret
                    /\ \A l \in DOMAIN s.primary.v.totp \ {label} :
                          n.primary.v.totp[l] = s.primary.v.totp[l]
               ELSE IF chal = downgrade_to_legacy(secret) THEN
                    /\ last'.res = "Ok"
                    /\ n.mfaregstate.type = "TotpInvalidSha1"
                    /\ n.mfaregstate.totp = secret
                    /\ n.primary = s.primary
               ELSE /\ last'.res = "Ok"
                    /\ n.mfaregstate.type = "TotpTryAgain"
                    /\ n.mfaregstate.totp = secret
                    /\ n.primary = s.primary
      ]_vars

\* The last of the edits of a session was a check with the right code: the
\* generated secret is attached under the new label, next to the TOTP the
\* account had.
C25_Witness ==
    /\ last.op = "check_totp"
    /\ last.res = "Ok"
    /\ edits = MaxMfaEdits - 3
    /\ \E id \in DOMAIN cred_update_sessions :
        /\ cred_update_sessions[id].mfaregstate.type = "None"
        /\ cred_update_sessions[id].primary # None
        /\ DOMAIN cred_update_sessions[id].primary.v.totp = {OldLabel, "l1"}
        /\ cred_update_sessions[id].primary.v.totp["l1"] = generate_secure(1)

\* C26: on a session that may edit the primary credential, has none, and
\* has a TOTP secret awaiting verification, check TOTP returns InvalidState
\* for every code, the right one, one valid under SHA-1 and a wrong one, and
\* leaves the MFA sub-state as it was.
C26_CheckTotpWithoutPrimary ==
    [][ last'.op = "check_totp" =>
          \A tok \in issued, chal \in Codes, label \in Labels :
            (/\ tok.sessionid \in DOMAIN cred_update_sessions
             /\ cred_update_sessions[tok.sessionid].primary_can_edit
             /\ cred_update_sessions[tok.sessionid].primary = None
             /\ cred_update_sessions[tok.sessionid].mfaregstate.type \in TotpStates
             /\ credential_primary_check_totp(tok, 0, chal, label))
            => /\ last'.res = "InvalidState"
               /\ cred_update_sessions'[tok.sessionid].mfaregstate
                    = cred_update_sessions[tok.sessionid].mfaregstate
      ]_vars

\* C27: while the MFA sub-state of a session is not None, init TOTP and
\* remove TOTP (on a session that may edit the primary) and init passkey
\* (on a session that may edit the passkeys) return InvalidState and leave
\* the record as it was; so a registration starts only from sub-state None
\* and never replaces one in progress.
C27_OneRegistrationAtATime ==
    [][ /\ last'.op = "init_totp" =>
            \A tok \in issued, secret \in Secrets :
              (/\ tok.sessionid \in DOMAIN cred_update_sessions
               /\ cred_update_sessions[tok.sessionid].primary_can_edit
               /\ credential_primary_init_totp(tok, 0, secret))
              => IF cred_update_sessions[tok.sessionid].mfaregstate.type # "None"
                 THEN /\ last'.res = "InvalidState"
                      /\ cred_update_sessions' = cred_update_sessions
                 ELSE last'.res = "Ok"
        /\ last'.op = "remove_totp" =>
            \A tok \in issued, label \in Labels \cup {OldLabel} :
              (/\ tok.sessionid \in DOMAIN cred_update_sessions
               /\ cred_update_sessions[tok.sessionid].primary_can_edit
               /\ cred_update_sessions[tok.sessionid].mfaregstate.type # "None"
               /\ credential_primary_remove_totp(tok, 0, label))
              => /\ last'.res = "InvalidState"
                 /\ cred_update_sessions' = cred_update_sessions
        /\ last'.op = "passkey_init" =>
            \A tok \in issued, started \in BOOLEAN :
              (/\ tok.sessionid \in DOMAIN cred_update_sessions
               /\ cred_update_sessions[tok.sessionid].passkeys_can_edit
               /\ credential_passkey_init(tok, 0, started))
              => IF cred_update_sessions[tok.sessionid].mfaregstate.type # "None"
                 THEN /\ last'.res = "InvalidState"
                      /\ cred_update_sessions' = cred_update_sessions
                 ELSE last'.res \in {"Ok", "Webauthn"}
        /\ \A id \in DOMAIN cred_update_sessions \cap DOMAIN cred_update_sessions' :
            (/\ last'.op \in {"init_totp", "passkey_init"}
             /\ cred_update_sessions'[id].mfaregstate # cred_update_sessions[id].mfaregstate)
            => cred_update_sessions[id].mfaregstate.type = "None"
      ]_vars

\* init TOTP was refused on a session that may edit the primary while a
\* passkey registration is in progress.
C27_Witness ==
    /\ last = Result("init_totp", "InvalidState", NoStatus)
    /\ \E id \in DOMAIN cred_update_sessions :
        /\ cred_update_sessions[id].primary_can_edit
        /\ cred_update_sessions[id].mfaregstate.type = "Passkey"

\* The TOTPs of an optional credential that use SHA-1.
Sha1Totps(primary) ==
    IF primary = None THEN {}
    ELSE {l \in DOMAIN primary.v.totp : primary.v.totp[l].algo = "Sha1"}

\* C28: accept SHA-1 TOTP succeeds only from sub-state TotpInvalidSha1,
\* where it attaches the SHA-1 variant of the secret under the label the
\* failed check recorded and sets the sub-state to None; from every other
\* sub-state it fails and leaves the record as it was; and no other step
\* attaches a SHA-1 TOTP, so none is attached without a check that
\* verified under SHA-1 before it.
C28_AcceptSha1 ==
    [][ /\ last'.op = "accept_sha1_totp" =>
            \A tok \in issued :
              (/\ tok.sessionid \in DOMAIN cred_update_sessions
               /\ credential_primary_accept_sha1_totp(tok, 0))
              => LET s == cred_update_sessions[tok.sessionid]
                     n == cred_update_sessions'[tok.sessionid]
                 IN
                 IF s.mfaregstate.type = "TotpInvalidSha1"
                 THEN s.primary # None =>
                        /\ last'.res = "Ok"
                        /\ n.primary # None
                        /\ DOMAIN n.primary.v.totp
                             = DOMAIN s.primary.v.totp \cup {s.mfaregstate.label}
                        /\ n.primary.v.totp[s.mfaregstate.label]
                             = downgrade_to_legacy(s.mfaregstate.totp)
                        /\ n.mfaregstate.type = "None"
                 ELSE /\ last'.res # "Ok"
                      /\ cred_update_sessions' = cred_update_sessions
        /\ \A id \in DOMAIN cred_update_sessions \cap DOMAIN cred_update_sessions' :
            Sha1Totps(cred_update_sessions'[id].primary)
              # Sha1Totps(cred_update_sessions[id].primary)
            /\ Sha1Totps(cred_update_sessions'[id].primary) # {}
            => /\ last'.op = "accept_sha1_totp"
               /\ cred_update_sessions[id].mfaregstate.type = "TotpInvalidSha1"
        /\ \A id \in DOMAIN cred_update_sessions \cap DOMAIN cred_update_sessions' :
            (/\ cred_update_sessions'[id].mfaregstate.type = "TotpInvalidSha1"
             /\ cred_update_sessions[id].mfaregstate.type # "TotpInvalidSha1")
            => last' = Result("check_totp", "Ok", Status(cred_update_sessions'[id]))
      ]_vars

\* accept SHA-1 TOTP has attached the SHA-1 variant of the generated
\* secret under the label of the check.
C28_Witness ==
    /\ last.op = "accept_sha1_totp"
    /\ last.res = "Ok"
    /\ \E id \in DOMAIN cred_update_sessions :
        /\ cred_update_sessions[id].mfaregstate.type = "None"
        /\ cred_update_sessions[id].primary # None
        /\ "l1" \in DOMAIN cred_update_sessions[id].primary.v.totp
        /\ cred_update_sessions[id].primary.v.totp["l1"] = Totp(1, "Sha1")

\* C29: finish passkey succeeds only from sub-state Passkey, where a valid
\* registration response adds exactly one entry, under a fresh uuid and
\* with the given label, to the editable passkey map, keeps the other
\* entries and the primary credential, and sets the sub-state to None; a
\* registration response that fails leaves the sub-state Passkey and the
\* map as they were; from any other sub-state the call fails and changes
\* nothing.
C29_PasskeyFinish ==
    [][ last'.op = "passkey_finish" =>
          \A tok \in issued, label \in Labels, reg_ok \in BOOLEAN, pk_id \in PkIds :
            (/\ tok.sessionid \in DOMAIN cred_update_sessions
             /\ credential_passkey_finish(tok, 0, label, reg_ok, pk_id))
            => LET s == cred_update_sessions[tok.sessionid]
                   n == cred_update_sessions'[tok.sessionid]
               IN
               IF s.mfaregstate.type = "Passkey" /\ reg_ok
               THEN /\ last'.res = "Ok"
                    /\ pk_id \notin DOMAIN s.passkeys
                    /\ DOMAIN n.passkeys = DOMAIN s.passkeys \cup {pk_id}
                    /\ n.passkeys[pk_id] = label
                    /\ \A k \in DOMAIN s.passkeys : n.passkeys[k] = s.passkeys[k]
                    /\ n.primary = s.primary
                    /\ n.mfaregstate.type = "None"
               ELSE /\ last'.res # "Ok"
                    /\ s.mfaregstate.type = "Passkey" => last'.res = "Webauthn"
                    /\ cred_update_sessions' = cred_update_sessions
      ]_vars

\* finish passkey has added a passkey next to the one the account had, on a
\* session that holds a primary credential.
C29_Witness ==
    /\ last.op = "passkey_finish"
    /\ last.res = "Ok"
    /\ \E id \in DOMAIN cred_update_sessions :
        /\ cred_update_sessions[id].mfaregstate.type = "None"
        /\ cred_update_sessions[id].primary # None
        /\ DOMAIN cred_update_sessions[id].passkeys = {OldPkId, 1}
        /\ cred_update_sessions[id].passkeys[OldPkId] = OldLabel

\* C30: cancel MFA registration sets the sub-state to None from every
\* sub-state, whatever the session may edit, and leaves the rest of the
\* record, the editable primary and the editable passkeys among it, as it
\* was; and a commit writes to the account the primary and the passkeys of
\* the record and nothing else, so nothing of a registration that was
\* cancelled.
C30_CancelMfaReg ==
    [][ /\ last'.op = "cancel_mfareg" =>
            \A tok \in issued :
              (/\ tok.sessionid \in DOMAIN cred_update_sessions
               /\ credential_update_cancel_mfareg(tok, 0))
              => /\ last'.res = "Ok"
                 /\ cred_update_sessions'[tok.sessionid] =
                      [cred_update_sessions[tok.sessionid] EXCEPT
                          !.mfaregstate = [type |-> "None"]]
        /\ (last'.op = "commit" /\ last'.res = "Ok") =>
            \A tok \in issued :
              (/\ tok.sessionid \in DOMAIN cred_update_sessions
               /\ commit_credential_update(tok, 0))
              => LET s == cred_update_sessions[tok.sessionid] IN
                 /\ acct_primary' = IF s.primary_can_edit THEN s.primary ELSE acct_primary
                 /\ acct_passkeys' = IF s.passkeys_can_edit THEN s.passkeys
                                     ELSE acct_passkeys
      ]_vars

\* A session that may not edit the primary has, as its second edit,
\* cancelled the registration; its passkeys are those of the account.
C30_Witness ==
    /\ last.op = "cancel_mfareg"
    /\ last.res = "Ok"
    /\ edits = MaxMfaEdits - 2
    /\ \E id \in DOMAIN cred_update_sessions :
        /\ ~cred_update_sessions[id].primary_can_edit
        /\ cred_update_sessions[id].mfaregstate.type = "None"
        /\ cred_update_sessions[id].passkeys = acct_passkeys
        /\ acct_passkeys # EmptyMap
        /\ opened[id].edited

\* The calls that return a status other than the one of init backup codes.
StatusOps == (EditOps \cup {"status", "cancel_mfareg"}) \ {"init_backup_codes"}

\* C31: a successful init backup codes returns a status whose MFA state is
\* BackupCodes and leaves the sub-state stored in the record as it was; the
\* record never stores BackupCodes, and every successful status or other
\* edit call returns the stored sub-state, never BackupCodes.
C31_BackupCodesInOneStatus ==
    [][ /\ last'.op = "init_backup_codes" =>
            \A tok \in issued :
              (/\ tok.sessionid \in DOMAIN cred_update_sessions
               /\ credential_primary_init_backup_codes(tok, 0)
               /\ last'.res = "Ok")
              => /\ last'.status.mfaregstate = "BackupCodes"
                 /\ cred_update_sessions'[tok.sessionid].mfaregstate =
                      cred_update_sessions[tok.sessionid].mfaregstate
        /\ \A id \in DOMAIN cred_update_sessions' :
              /\ cred_update_sessions'[id].mfaregstate.type # "BackupCodes"
              /\ (last'.op \in StatusOps /\ last'.res = "Ok")
                 => /\ last'.status.mfaregstate # "BackupCodes"
                    /\ last'.status.mfaregstate =
                         Status(cred_update_sessions'[id]).mfaregstate
      ]_vars

\* A session has started a TOTP registration and then generated backup
\* codes, which the account did not have; the status asked for afterwards
\* reports the registration in progress.
C31_Witness ==
    /\ last.op = "status"
    /\ last.res = "Ok"
    /\ last.status.mfaregstate = "TotpCheck"
    /\ edits = MaxMfaEdits - 2
    /\ ~HasBackupCodes(acct_primary)
    /\ \E id \in DOMAIN cred_update_sessions :
        /\ HasBackupCodes(cred_update_sessions[id].primary)
        /\ cred_update_sessions[id].mfaregstate.type = "TotpInit"

\* C32: a successful set primary password on a session that has an editable
\* primary changes its password and keeps its TOTPs and backup codes; on a
\* session without primary it creates a password-only primary; in both
\* cases the rest of the record, the MFA sub-state and the passkeys among
\* it, is unchanged.  A password rejected for quality returns
\* PasswordQuality, and every set password that fails leaves the store
\* unchanged.
C32_SetPasswordKeepsMfa ==
    [][ last'.op = "set_password" =>
          \A tok \in issued, pw \in Passwords :
            (/\ tok.sessionid \in DOMAIN cred_update_sessions
             /\ credential_primary_set_password(tok, 0, pw))
            => LET s == cred_update_sessions[tok.sessionid]
                   n == cred_update_sessions'[tok.sessionid]
               IN
               /\ (s.primary_can_edit /\ check_password_quality(pw) # "Ok")
                  => last'.res = "PasswordQuality"
               /\ (s.primary_can_edit /\ check_password_quality(pw) = "Ok")
                  => last'.res = "Ok"
               /\ last'.res # "Ok" => cred_update_sessions' = cred_update_sessions
               /\ last'.res = "Ok" =>
                    /\ n = [s EXCEPT !.primary = n.primary]
                    /\ n.mfaregstate = s.mfaregstate
                    /\ n.passkeys = s.passkeys
                    /\ n.primary # None
                    /\ n.primary.v.pw = pw
                    /\ IF s.primary = None
                       THEN /\ n.primary.v.totp = EmptyMap
                            /\ ~n.primary.v.backup_code
                            /\ n.primary.v.type = "Password"
                       ELSE /\ n.primary.v.totp = s.primary.v.totp
                            /\ n.primary.v.backup_code = s.primary.v.backup_code
                            /\ n.primary.v.type = s.primary.v.type
      ]_vars

\* While a registration is in progress, a session whose primary has a TOTP
\* and backup codes has been given a new password.
C32_Witness ==
    /\ last.op = "set_password"
    /\ last.res = "Ok"
    /\ \E id \in DOMAIN cred_update_sessions :
        LET s == cred_update_sessions[id] IN
        /\ s.primary # None
        /\ s.primary.v.pw = "pwB"
        /\ OldLabel \in DOMAIN s.primary.v.totp
        /\ s.primary.v.backup_code
        /\ s.mfaregstate.type # "None"
        /\ s.passkeys # EmptyMap
        /\ acct_primary # None /\ acct_primary.v.pw = "pwA"

\* C33: can_commit is true of every stored session and in every status
\* returned, whatever the sub-state and the primary; a commit of a stored
\* session with an unexpired token, no other call in flight, is never
\* refused, also while a registration is in progress, and writes to the
\* account the primary and the passkeys of the record where they may be
\* edited and nothing else: no TOTP or passkey the record had not attached.
C33_CanCommitAlways ==
    [][ /\ \A id \in DOMAIN cred_update_sessions' : can_commit(cred_update_sessions'[id])
        /\ last'.status.type = "Status" => last'.status.can_commit
        /\ last'.op = "commit" =>
            \A tok \in issued :
              (/\ tok.sessionid \in DOMAIN cred_update_sessions
               /\ commit_credential_update(tok, 0))
              => LET s == cred_update_sessions[tok.sessionid] IN
                 /\ last'.res = "Ok"
                 /\ acct_primary' = IF s.primary_can_edit THEN s.primary ELSE acct_primary
                 /\ acct_passkeys' = IF s.passkeys_can_edit THEN s.passkeys
                                     ELSE acct_passkeys
                 /\ TotpLabels(acct_primary') \subseteq
                        TotpLabels(s.primary) \cup TotpLabels(acct_primary)
                 /\ DOMAIN acct_passkeys' \subseteq
                        DOMAIN s.passkeys \cup DOMAIN acct_passkeys
      ]_vars

\* A session that may edit the primary was committed while its TOTP
\* registration was in progress; the account has the TOTP it had before and
\* no other.
C33_Witness ==
    /\ last.op = "commit"
    /\ last.res = "Ok"
    /\ about # None
    /\ about.v.by = "commit" /\ about.v.ok
    /\ about.v.mfareg \in TotpStates
    /\ about.v.perms.primary_can_edit
    /\ TotpLabels(acct_primary) = {OldLabel}

\* C34: a call that holds the handle of a session has released it when it
\* returns, with Ok or with an error; a status or edit call made in one step
\* leaves no handle held; so when no call holds the handle of a stored
\* session, a status or edit call with its unexpired token acquires the
\* handle, and returns InvalidState only where the operation itself refuses
\* (passkey init while a registration is in progress).
C34_HandleReleasedOnReturn ==
    [][ /\ \A t \in Threads :
            (Locked(t) /\ FinishCall(t))
            => /\ calls'[t] = None
               /\ Holders(calls[t].v.tok.sessionid)' = {}
        /\ \A tok \in issued, ct \in OpenTimes :
            (/\ Holders(tok.sessionid) = {}
             /\ get_current_session(tok, ct).err = "Ok"
             /\ \/ credential_update_status(tok, ct)
                \/ \E pw \in LedgerPasswords : credential_primary_set_password(tok, ct, pw)
                \/ \E started \in BOOLEAN : credential_passkey_init(tok, ct, started)
                \/ credential_primary_delete(tok, ct))
            => /\ Holders(tok.sessionid)' = {}
               /\ last'.res = "InvalidState"
                    => /\ last'.op = "passkey_init"
                       /\ cred_update_sessions[tok.sessionid].mfaregstate.type # "None"
        /\ \A t \in Threads :
            (/\ calls[t] # None
             /\ calls[t].v.phase = "found"
             /\ Holders(calls[t].v.tok.sessionid) = {}
             /\ AcquireCall(t))
            => /\ calls'[t] # None
               /\ calls'[t].v.phase = "locked"
               /\ last' = last
      ]_vars

\* A set password was refused for want of permission, which the call finds
\* out once it holds the handle; a later call on the same stored session
\* has acquired the handle since.
C34_Witness ==
    /\ last = Result("set_password", "AccessDenied", NoStatus)
    /\ \E t \in Threads :
        /\ Locked(t)
        /\ calls[t].v.tok.sessionid \in DOMAIN cred_update_sessions
        /\ ~cred_update_sessions[calls[t].v.tok.sessionid].primary_can_edit
        /\ Holders(calls[t].v.tok.sessionid) = {t}

\* C35: an exchange of an intent made at a time at or after the expiry of
\* its grant opens no session, whether the grant is Valid or InProgress and
\* whatever exchanges and cancels came before.
C35_NoSessionFromExpiredGrant ==
    [][ last'.op = "exchange" =>
          \A i \in IntentIds, ct \in Times, url \in BOOLEAN :
            ( /\ i \in DOMAIN acct_intents
              /\ ct >= acct_intents[i].max_ttl
              /\ exchange_intent_credential_update(i, ct, url) )
            => /\ last'.res # "Ok"
               /\ cred_update_sessions' = cred_update_sessions
               /\ issued' = issued
      ]_vars

\* C36: creating a session gives it an identifier no session created before
\* has, and a token no other session has; every stored session whose token
\* has not expired at that time stays in the store with its record.
C36_FreshSessionIds ==
    [][ (last'.op = "init" /\ last'.res = "Ok") =>
          \A ident \in LocalIdentities, ct \in StoreTimes, url \in BOOLEAN :
            init_credential_update(ident, ct, url)
            => /\ uuid_from_duration(ct + MAXIMUM_CRED_UPDATE_TTL, sid)
                    \notin DOMAIN cred_update_sessions
               /\ \A old \in issued :
                     old.sessionid # uuid_from_duration(ct + MAXIMUM_CRED_UPDATE_TTL, sid)
               /\ \A old \in issued :
                     (old.sessionid \in DOMAIN cred_update_sessions /\ ct < old.max_ttl)
                     => /\ old.sessionid \in DOMAIN cred_update_sessions'
                        /\ cred_update_sessions'[old.sessionid] =
                             cred_update_sessions[old.sessionid]
      ]_vars

\* C37: a commit of a stored session that was opened by exchanging an
\* intent, made before the session's expiry, succeeds when the intent was
\* not exchanged again since and the session was not cancelled; an
\* init_intent on the account in between does not take the grant away.
C37_LiveIntentSessionCommits ==
    [][ last'.op = "commit" =>
          \A tok \in issued, ct \in Times :
            ( /\ tok.sessionid \in DOMAIN cred_update_sessions
              /\ ct < tok.max_ttl
              /\ cred_update_sessions[tok.sessionid].intent_token_id # None
              /\ LET i == cred_update_sessions[tok.sessionid].intent_token_id.v IN
                 /\ Len(exch_hist[i]) = 1
                 /\ exch_hist[i][1] = tok.sessionid
                 /\ \A j \in IntentIds \ {i} :
                       \A k \in 1..Len(exch_hist[j]) : exch_hist[j][k] # tok.sessionid
              /\ ~IsClosed(tok.sessionid)
              /\ commit_credential_update(tok, ct) )
            => last'.res = "Ok"
      ]_vars

\* C38: in every stored session the MFA sub-state is TotpInit, TotpTryAgain
\* or TotpInvalidSha1 only if primary_can_edit, and Passkey only if
\* passkeys_can_edit; the editable primary is None when primary_can_edit is
\* false and the editable passkeys are empty when passkeys_can_edit is false.
C38_SubStateWithinPermissions ==
    \A id \in DOMAIN cred_update_sessions :
        LET s == cred_update_sessions[id] IN
        /\ s.mfaregstate.type \in TotpStates => s.primary_can_edit
        /\ s.mfaregstate.type = "Passkey" => s.passkeys_can_edit
        /\ ~s.primary_can_edit => s.primary = None
        /\ ~s.passkeys_can_edit => s.passkeys = EmptyMap

\* A session that may edit the passkeys but not the primary, on an account
\* that has a primary, is registering a passkey; its init TOTP was refused.
C38_Witness ==
    /\ last = Result("init_totp", "AccessDenied", NoStatus)
    /\ acct_primary # None
    /\ \E id \in DOMAIN cred_update_sessions :
        LET s == cred_update_sessions[id] IN
        /\ ~s.primary_can_edit
        /\ s.passkeys_can_edit
        /\ s.primary = None
        /\ s.mfaregstate.type = "Passkey"

\* C39: a commit or cancel that fails on a stored session with an unexpired
\* token leaves the record in the store, so the token can be used again;
\* only a successful commit or cancel removes the record.
C39_FailedCloseKeepsSession ==
    [][ last'.op \in {"commit", "cancel"} =>
          \A tok \in issued, ct \in OpenTimes :
            ( /\ tok.sessionid \in DOMAIN cred_update_sessions
              /\ ct < tok.max_ttl
              /\ \/ commit_credential_update(tok, ct)
                 \/ cancel_credential_update(tok, ct)
              /\ last'.res # "Ok" )
            => /\ tok.sessionid \in DOMAIN cred_update_sessions'
               /\ cred_update_sessions' = cred_update_sessions
      ]_vars

\* C40: no edit call returns success on the record of a session after a
\* successful commit has taken its copy of that record: every edit that
\* succeeds is in what the commit wrote to the account.
C40_NoEditAfterCommitCopy ==
    [][ \A t \in Threads :
          ( /\ Locked(t)
            /\ calls[t].v.op = "set_password"
            /\ FinishCall(t)
            /\ last'.res = "Ok" )
          => ~\E f \in finished :
                 f.id = calls[t].v.tok.sessionid /\ f.by = "commit"
      ]_vars
====
